---- MODULE Spec2Model ----
(***************************************************************************)
(* Transaction dispatch and attribution subsystem of XandO.                *)
(*                                                                         *)
(*   SpecSend : sendXandOTx (WalletPanel.tsx), one dispatch after another, *)
(*              against a wallet that answers every request with success   *)
(*              or with one of the errors of WalletErrors.                 *)
(*   SpecHook : the useGameContractTx hook (useGameContractTx.ts): the     *)
(*              status tracker, sendContractCall, the two pollers and the  *)
(*              auto-reset timer, under any interleaving.                  *)
(*   SpecDetect : getSendCallsDataSuffixSupport with its two callers,      *)
(*              sendXandOTx and the effect of useAttributionStatus (in a   *)
(*              development build, where the effect runs), while the       *)
(*              wallet client connects, disconnects and changes.           *)
(*                                                                         *)
(* Hex strings are sequences of bytes, each byte written as one token;     *)
(* "A" and "B" are the upper-case spellings of the bytes "a" and "b", and  *)
(* "8" is a byte whose spelling has no letters.  '0x' is the empty         *)
(* sequence and a missing value is `undefined`.                            *)
(***************************************************************************)
EXTENDS Integers, Sequences, FiniteSets, TLC

VARIABLES
    \* ---- build configuration (import.meta.env) and module-level caches
    builderCode,                    \* getBuilderCode()
    forceManual,                    \* getForceManualBuilderSuffix()
    cachedDataSuffixSupport,        \* sendCallsCapabilities.ts:7
    cachedDataSuffixSupportPromise, \* sendCallsCapabilities.ts:8
    \* ---- one sendXandOTx call
    x_pc,        \* position of the async function
    x_args,      \* SendXandOTxArgs
    x_mode,      \* const mode (WalletPanel.tsx:220)
    x_log,       \* wallet submissions issued by this call, in order
    x_sim,       \* publicClient.call simulations issued by this call
    x_capReqs,   \* wallet_getCapabilities requests issued by this call
    x_result,    \* the resolved SendXandOTxResult
    x_error,     \* the error the call rejected with
    \* ---- the useGameContractTx hook
    status,         \* useState<TxStatus>
    callId,         \* useState<string | null>
    txHash,         \* useState<hash | null>
    lastError,      \* useState<DebugError | null>
    sendMethod,     \* useState<'sendCalls' | ... | 'none'>
    resetTimeoutRef,\* the delay of the armed auto-reset timer, or null
    timers,         \* the timeouts of window.setTimeout that are pending
    callsStatus,    \* data of useWaitForCallsStatus for callId
    h_pc,           \* position of sendContractCall
    h_env,          \* what the hook's closures captured at the request
    h_fn,           \* functionName of the dispatch in flight
    h_error,        \* `error` caught at useGameContractTx.ts:292, while the retry runs
    h_log,          \* submissions and simulations issued by the dispatch, in order
    h_trace,        \* status.state values the dispatch has set, in order
    p_last,         \* the last report of a poller that confirmed, and its repeats
    \* ---- the wallet client and the callers of getSendCallsDataSuffixSupport
    walletClient,        \* data of useWalletClient: "none" or the client's identity
    g_log,               \* wallet_getCapabilities requests issued, in order
    x_client,            \* the walletClient argument of the sendXandOTx call
    a_pc,                \* useAttributionStatus: "unmounted", "idle" or "waiting"
    a_client,            \* the client the active run of its effect passed
    dataSuffixSupported, \* useState<boolean | null> of useAttributionStatus
    \* ---- the pure functions of lib/, applied to inputs of their own
    c_impl,      \* the module appendBuilderCodeToCalldata is imported from
    c_code,      \* the builder code passed to it
    c_trace,     \* the call data given, then the result of each application to it
    c_call       \* the last call of hasDataSuffix or supportsDataSuffixCapability:
                 \* the function, its arguments and its result

configVars == <<builderCode, forceManual>>
cacheVars  == <<cachedDataSuffixSupport, cachedDataSuffixSupportPromise>>
sendVars   == <<x_pc, x_args, x_mode, x_log, x_sim, x_capReqs, x_result, x_error>>
hookVars   == <<status, callId, txHash, lastError, sendMethod, resetTimeoutRef, timers,
                callsStatus, h_pc, h_env, h_fn, h_error, h_log, h_trace, p_last>>
statusVars == <<a_pc, a_client, dataSuffixSupported>>
appVars    == <<walletClient, g_log, x_client, statusVars>>
codecVars  == <<c_impl, c_code, c_trace, c_call>>
vars       == <<configVars, cacheVars, sendVars, hookVars, appVars, codecVars>>

\* A missing hex value; a hex value is a sequence of bytes, and so is this one.
undefined == <<"undefined">>
null      == "null"

\* ------------------------------------------------------------------ bounds
\* The largest batch a caller passes to sendXandOTx.
MaxCalls == 2
\* The number of distinct handles (bundle ids, transaction hashes) a wallet returns.
MaxHandles == 2
\* The number of wallet_getCapabilities requests followed.
MaxCapRequests == 2
\* The number of times a poller repeats a report that confirmed.
MaxRepeats == 1
\* The number of times appendBuilderCodeToCalldata is applied to its own result.
MaxAppends == 2

\* ------------------------------------------------------------ hex strings
toLowerCase(c) ==
    CASE c = "A" -> "a"
      [] c = "B" -> "b"
      [] OTHER   -> c

\* normalizeHex: a missing value and '0x' give '0x'; anything else is lower-cased.
normalizeHex(value) ==
    IF value = undefined THEN <<>>
    ELSE IF value = <<>> THEN <<>>
    ELSE [i \in 1..Len(value) |-> toLowerCase(value[i])]

ensureHex(value) ==
    IF value = undefined THEN undefined
    ELSE LET normalized == normalizeHex(value)
         IN  IF normalized = <<>> THEN undefined ELSE normalized

\* String.prototype.endsWith on the hex bodies.
endsWith(body, tail) ==
    /\ Len(tail) <= Len(body)
    /\ SubSeq(body, Len(body) - Len(tail) + 1, Len(body)) = tail

\* Attribution.toDataSuffix({codes: [code]}) of ox/erc8021: the bytes of the code
\* followed by the fixed ERC-8021 marker, in lower case.
BUILDER_CODE == "bc_ynopiw2i"

toDataSuffix(code) ==
    CASE code = BUILDER_CODE -> <<"a", "8">>
      [] OTHER               -> <<"b", "8">>

\* A builder code that is unset or empty is falsy.
noCode == ""

getDataSuffix(code) ==
    IF code = noCode THEN undefined ELSE ensureHex(toDataSuffix(code))

\* hasDataSuffix comparing the bytes as given, without normalizeHex.
hasDataSuffixCaseSensitive(calldata, dataSuffix) ==
    IF dataSuffix = undefined THEN FALSE
    ELSE IF calldata = undefined \/ calldata = <<>> THEN FALSE
    ELSE endsWith(calldata, dataSuffix)

hasDataSuffix(calldata, dataSuffix) ==
    IF dataSuffix = undefined THEN FALSE
    ELSE LET normalizedCalldata == normalizeHex(calldata)
             normalizedSuffix   == normalizeHex(dataSuffix)
         IN  IF normalizedCalldata = <<>> THEN FALSE
             ELSE endsWith(normalizedCalldata, normalizedSuffix)

\* lib/baseAttribution.ts: concatHex([calldata, buildDataSuffix(code)]).
buildDataSuffix(code) == toDataSuffix(code)

concatAppendBuilderCodeToCalldata(calldata, code) ==
    calldata \o buildDataSuffix(code)

\* appendBuilderCodeToCalldata without the endsWith test.
appendWithoutCheck(calldata, code) ==
    IF code = noCode THEN calldata
    ELSE normalizeHex(normalizeHex(calldata) \o toDataSuffix(code))

\* appendBuilderCodeToCalldata returning empty call data as it is.
appendKeepingEmpty(calldata, code) ==
    IF code = noCode THEN calldata
    ELSE LET normalizedCalldata == normalizeHex(calldata)
             normalizedSuffix   == normalizeHex(toDataSuffix(code))
         IN  IF normalizedCalldata = <<>> THEN normalizedCalldata
             ELSE IF endsWith(normalizedCalldata, normalizedSuffix)
                  THEN normalizedCalldata
                  ELSE normalizeHex(normalizedCalldata \o normalizedSuffix)

\* The append of sendXandOTx: normalises, and leaves data that already ends with
\* the suffix alone.
appendBuilderCodeToCalldata(calldata, code) ==
    IF code = noCode THEN calldata
    ELSE LET dataSuffix == ensureHex(toDataSuffix(code))
         IN  IF dataSuffix = undefined THEN normalizeHex(calldata)
             ELSE LET normalizedCalldata == normalizeHex(calldata)
                      normalizedSuffix   == normalizeHex(dataSuffix)
                  IN  IF normalizedCalldata = <<>> THEN normalizedSuffix
                      ELSE IF endsWith(normalizedCalldata, normalizedSuffix)
                           THEN normalizedCalldata
                           ELSE normalizeHex(normalizedCalldata \o normalizedSuffix)

\* A call is modelled by its data field (to and value are carried along unchanged).
appendSuffixToCall(call, code) ==
    appendBuilderCodeToCalldata(IF call = undefined THEN <<>> ELSE call, code)

Map(f(_), seq) == [i \in 1..Len(seq) |-> f(seq[i])]

\* ---------------------------------------------------------- wallet errors
\* An error is its numeric code and, for each of its texts, the set of the
\* phrases the classifiers look for that the lower-cased text contains.
Err(code, name, shortMessage, message) ==
    [code |-> code, name |-> name, shortMessage |-> shortMessage, message |-> message]

NoError == Err(0, {}, {}, {"<none>"})

ErrUserRejected    == Err(4001, {}, {"user rejected"}, {"user rejected"})
ErrRejectedEcho    == Err(4001, {}, {"user rejected"}, {"user rejected", "wallet_sendcalls"})
ErrInvalidParams   == Err(-32602, {}, {"invalid params"}, {"invalid params", "capabilities"})
ErrMethodNotFound  == Err(-32601, {}, {"method not found"}, {"method not found"})
ErrBothInvalidSend == Err(-32602, {}, {}, {"invalid params", "wallet_sendcalls"})
ErrOther           == Err(-32000, {}, {}, {})

WalletErrors ==
    {ErrUserRejected, ErrRejectedEcho, ErrInvalidParams, ErrMethodNotFound,
     ErrBothInvalidSend, ErrOther}

\* Errors the code itself throws.
ErrNoSendTransaction == Err(0, {}, {}, {"sendTransaction is unavailable."})
ErrSingleCall        == Err(0, {}, {}, {"sendTransaction only supports a single call."})
ErrNoWriteContract   == Err(0, {}, {}, {"writeContract is unavailable."})
ErrNoPublicClient    == Err(0, {}, {}, {"Public client not available for simulation."})
ErrSimulation        == Err(3, {}, {}, {"execution reverted"})

\* haystack.includes(phrase): 'wallet_sendcalls' contains 'sendcalls'.
includes(haystack, phrase) ==
    \/ phrase \in haystack
    \/ phrase = "sendcalls" /\ "wallet_sendcalls" \in haystack

\* isSendCallsUnsupported with its result negated.
unsupportedNegated(error) ==
    LET haystack == error.name \cup error.shortMessage \cup error.message
    IN  ~(\/ includes(haystack, "wallet_sendcalls")
          \/ includes(haystack, "sendcalls")
          \/ includes(haystack, "eip-5792")
          \/ includes(haystack, "method not found")
          \/ includes(haystack, "method not supported"))

isSendCallsUnsupported(error) ==
    LET haystack == error.name \cup error.shortMessage \cup error.message
    IN  \/ includes(haystack, "wallet_sendcalls")
        \/ includes(haystack, "sendcalls")
        \/ includes(haystack, "eip-5792")
        \/ includes(haystack, "method not found")
        \/ includes(haystack, "method not supported")

\* isCapabilitiesError without 'invalid params'.
capabilitiesErrorByNameOnly(error) ==
    LET haystack == error.shortMessage \cup error.message
    IN  \/ includes(haystack, "capabilities")
        \/ includes(haystack, "datasuffix")

isCapabilitiesError(error) ==
    LET haystack == error.shortMessage \cup error.message
    IN  \/ includes(haystack, "capabilities")
        \/ includes(haystack, "datasuffix")
        \/ includes(haystack, "invalid params")

\* The classifiers of useGameContractTx.ts.  'dataSuffix' is looked for in a
\* lower-cased haystack, which never contains it.
hookIsUserRejected(error) ==
    \/ error.code = 4001
    \/ includes(error.message, "user rejected")

hookIsSendCallsUnsupported(error) ==
    LET haystack == error.name \cup error.shortMessage \cup error.message
    IN  \/ includes(haystack, "wallet_sendcalls")
        \/ includes(haystack, "sendcalls")
        \/ includes(haystack, "eip-5792")
        \/ includes(haystack, "method not found")
        \/ includes(haystack, "method not supported")

hookIsCapabilitiesError(error) ==
    LET haystack == error.shortMessage \cup error.message
    IN  \/ includes(haystack, "capabilities")
        \/ includes(haystack, "datasuffix")
        \/ includes(haystack, "dataSuffix")
        \/ includes(haystack, "invalid params")


\* ------------------------------------------------- capability detection
\* What wallet_getCapabilities answers, reduced to the fields that
\* supportsDataSuffixCapability reads.  dataSuffix is "true", "false",
\* "object" or "absent"; supported and enabled are "true", "false" or "absent".
Caps(sendCalls, dataSuffix, supported, enabled, list) ==
    [dataSuffix |-> dataSuffix, sendCalls |-> sendCalls, supported |-> supported,
     enabled |-> enabled, list |-> list]

WalletCapabilities ==
    {Caps("absent", "absent", "absent", "absent", {}),
     Caps("object", "true", "absent", "absent", {}),
     Caps("object", "false", "absent", "absent", {}),
     Caps("object", "object", "true", "absent", {}),
     Caps("object", "object", "absent", "true", {}),
     Caps("object", "object", "false", "true", {}),
     Caps("array", "absent", "absent", "absent", {"dataSuffix"}),
     Caps("array", "absent", "absent", "absent", {"atomic"})}

\* supportsDataSuffixCapability without the test of the enabled field.
supportsIgnoringEnabled(capabilities) ==
    IF capabilities.sendCalls \notin {"object", "array"} THEN FALSE
    ELSE IF capabilities.sendCalls = "array" THEN "dataSuffix" \in capabilities.list
    ELSE IF capabilities.dataSuffix \in {"true", "false"}
         THEN capabilities.dataSuffix = "true"
    ELSE IF capabilities.dataSuffix = "object"
         THEN capabilities.supported = "true"
    ELSE FALSE

supportsDataSuffixCapability(capabilities) ==
    IF capabilities.sendCalls \notin {"object", "array"} THEN FALSE
    ELSE IF capabilities.sendCalls = "array" THEN "dataSuffix" \in capabilities.list
    ELSE IF capabilities.dataSuffix \in {"true", "false"}
         THEN capabilities.dataSuffix = "true"
    ELSE IF capabilities.dataSuffix = "object"
         THEN IF capabilities.supported \in {"true", "false"}
                   THEN capabilities.supported = "true"
              ELSE IF capabilities.enabled \in {"true", "false"}
                   THEN capabilities.enabled = "true"
              ELSE FALSE
    ELSE FALSE

toFlag(b) == IF b THEN "true" ELSE "false"

NoCapabilities == Caps("absent", "absent", "absent", "absent", {})

\* ------------------------------------- the functions of lib/, on their own
\* The append of the module `impl`: lib/sendCallsCapabilities.ts:146-161, which
\* sendXandOTx imports, or lib/baseAttribution.ts:8-10, which the hook imports.
appendOf(impl, calldata, code) ==
    IF impl = "baseAttribution"
    THEN concatAppendBuilderCodeToCalldata(calldata, code)
    ELSE appendBuilderCodeToCalldata(calldata, code)

\* Call data: '0x', plain data in lower and in mixed case, data that ends with a
\* suffix in lower and in upper case, and a suffix alone.
CodecDatas ==
    {<<>>, <<"a">>, <<"A", "b">>, <<"a", "b", "8">>, <<"a", "B", "8">>, <<"b", "8">>}

\* The dataSuffix argument of hasDataSuffix: missing, '0x', and a suffix in
\* lower and in upper case.
CodecSuffixes == {undefined, <<>>, <<"b", "8">>, <<"B", "8">>}

\* Capability structures as wallets report them and as they do not: a
\* wallet_sendCalls entry that is missing, not an object ("other"), an array or
\* an object; in an object a dataSuffix that is a boolean, missing, neither
\* boolean nor object ("other"), or an object with any supported and enabled.
CapabilityShapes ==
    {Caps(sendCalls, "true", "absent", "absent", {}) : sendCalls \in {"absent", "other"}}
    \cup {Caps("object", dataSuffix, "absent", "absent", {}) :
             dataSuffix \in {"true", "false", "absent", "other"}}
    \cup {Caps("object", "object", supported, enabled, {}) :
             supported \in {"true", "false", "absent", "other"},
             enabled \in {"true", "false", "absent"}}
    \cup {Caps("array", "absent", "absent", "absent", list) :
             list \in {{}, {"dataSuffix"}, {"atomic"}, {"atomic", "dataSuffix"}}}

Call(fn, calldata, dataSuffix, capabilities, result) ==
    [calldata |-> calldata, dataSuffix |-> dataSuffix, capabilities |-> capabilities,
     fn |-> fn, result |-> result]

NoCall == Call("none", <<>>, undefined, NoCapabilities, "none")

\* appendBuilderCodeToCalldata is applied to the data last obtained.
AppendBuilderCodeToCalldata ==
    /\ Len(c_trace) <= MaxAppends
    /\ c_trace' = Append(c_trace, appendOf(c_impl, c_trace[Len(c_trace)], c_code))
    /\ UNCHANGED <<configVars, cacheVars, sendVars, hookVars, appVars,
                   c_impl, c_code, c_call>>

\* hasDataSuffix is called, with any data or the data last obtained, and any
\* suffix or the suffix of the code (lib/sendCallsCapabilities.ts:124-133).
HasDataSuffix ==
    /\ \E calldata \in CodecDatas \cup {undefined, c_trace[Len(c_trace)]},
          dataSuffix \in CodecSuffixes \cup {getDataSuffix(c_code)} :
          c_call' = Call("hasDataSuffix", calldata, dataSuffix, NoCapabilities,
                         toFlag(hasDataSuffix(calldata, dataSuffix)))
    /\ UNCHANGED <<configVars, cacheVars, sendVars, hookVars, appVars,
                   c_impl, c_code, c_trace>>

\* supportsDataSuffixCapability is called (lib/sendCallsCapabilities.ts:10-39).
SupportsDataSuffixCapability ==
    /\ \E capabilities \in CapabilityShapes :
          c_call' = Call("supportsDataSuffixCapability", <<>>, undefined, capabilities,
                         toFlag(supportsDataSuffixCapability(capabilities)))
    /\ UNCHANGED <<configVars, cacheVars, sendVars, hookVars, appVars,
                   c_impl, c_code, c_trace>>

\* ------------------------------------------------------------ sendXandOTx
Pending     == [error |-> NoError, kind |-> "pending", handle |-> ""]
Resolved(h) == [error |-> NoError, kind |-> "ok", handle |-> h]
Rejected(e) == [error |-> e, kind |-> "error", handle |-> ""]

Handles == 1..MaxHandles
bundleId(n) == CASE n = 1 -> "id1" [] n = 2 -> "id2" [] OTHER -> "id3"
hashOf(n)   == CASE n = 1 -> "h1" [] n = 2 -> "h2" [] OTHER -> "h3"

\* A wallet submission: the method, the data of every call, the capabilities
\* field's dataSuffix (undefined when the request has no capabilities) and how the
\* wallet answered.
Submission(method, calls, dataSuffix) ==
    [dataSuffix |-> dataSuffix, method |-> method, calls |-> calls, outcome |-> Pending]

NoResult == [dataSuffix |-> undefined, handle |-> "", method |-> "none", calls |-> <<>>,
             mode |-> "off"]

\* The data a caller passes: none, '0x', plain data in mixed case, and data that
\* already ends with the suffix (spelt in upper case).
CallDatas == {undefined, <<>>, <<"A", "b">>, <<"a", "B", "8">>}

CallBatches == UNION {[1..n -> CallDatas] : n \in 0..MaxCalls}

SendArgs ==
    [walletClient : BOOLEAN, calls : CallBatches, sendCallsAsync : BOOLEAN,
     sendTransactionAsync : BOOLEAN, publicClient : BOOLEAN]

NoArgs == [walletClient |-> FALSE, calls |-> <<>>, sendCallsAsync |-> FALSE,
           sendTransactionAsync |-> FALSE, publicClient |-> FALSE]

\* call.data ?? '0x' replaced by normalizeHex(call.data).
dataNormalized(data) == normalizeHex(data)

dataOrEmpty(data) == IF data = undefined THEN <<>> ELSE data
callsNormalized(args) == Map(dataOrEmpty, args.calls)

\* The call as it is, nothing appended.
callUnchanged(call) == call

suffixCall(call) == appendSuffixToCall(call, builderCode)

\* mode with the detector's answer disregarded.
modeAlwaysCapabilities(supportsDataSuffix) ==
    IF builderCode # noCode /\ getDataSuffix(builderCode) # undefined
    THEN "capabilities" ELSE "off"

modeOf(supportsDataSuffix) ==
    IF builderCode # noCode /\ getDataSuffix(builderCode) # undefined
    THEN IF supportsDataSuffix THEN "capabilities" ELSE "manual"
    ELSE "off"

\* useAttributionStatus.ts:46-52: the mode the status panel shows for a value of
\* dataSuffixSupported, "true", "false" or null.
attributionStatusMode(supported) ==
    IF builderCode = noCode THEN "off"
    ELSE IF forceManual THEN "manual"
    ELSE IF supported = "true" THEN "capabilities"
    ELSE IF supported = "false" THEN "manual"
    ELSE "off"

\* EnterLegacy without the single-call test of WalletPanel.tsx:283-285.
EnterLegacyAnyBatch(args, log) ==
    LET normalized == [i \in 1..Len(args.calls) |->
                          IF args.calls[i] = undefined THEN <<>> ELSE args.calls[i]]
        call == IF normalized = <<>> THEN <<>> ELSE normalized[1]
        data == IF builderCode # noCode THEN appendSuffixToCall(call, builderCode) ELSE call
    IN  IF ~args.sendTransactionAsync
        THEN /\ x_pc' = "failed" /\ x_error' = ErrNoSendTransaction
             /\ x_log' = log /\ x_sim' = <<>>
        ELSE IF args.publicClient
        THEN /\ x_pc' = "call" /\ x_sim' = <<[outcome |-> Pending, data |-> data]>>
             /\ x_log' = log /\ x_error' = NoError
        ELSE /\ x_pc' = "sendTransaction"
             /\ x_log' = Append(log, Submission("sendTransaction", <<data>>, undefined))
             /\ x_sim' = <<>> /\ x_error' = NoError

\* WalletPanel.tsx:279-304, up to the next await: the legacy path after `log`.
EnterLegacy(args, log) ==
    LET normalized == callsNormalized(args)
        call == normalized[1]
        data == IF builderCode # noCode THEN suffixCall(call) ELSE call
    IN  IF ~args.sendTransactionAsync
        THEN /\ x_pc' = "failed" /\ x_error' = ErrNoSendTransaction
             /\ x_log' = log /\ x_sim' = <<>>
        ELSE IF Len(normalized) # 1
        THEN /\ x_pc' = "failed" /\ x_error' = ErrSingleCall
             /\ x_log' = log /\ x_sim' = <<>>
        ELSE IF args.publicClient
        THEN /\ x_pc' = "call" /\ x_sim' = <<[outcome |-> Pending, data |-> data]>>
             /\ x_log' = log /\ x_error' = NoError
        ELSE /\ x_pc' = "sendTransaction"
             /\ x_log' = Append(log, Submission("sendTransaction", <<data>>, undefined))
             /\ x_sim' = <<>> /\ x_error' = NoError

\* WalletPanel.tsx:220-258, up to the next await: mode selection and the first
\* batched submission.
SelectModeAndSend(args, supportsDataSuffix) ==
    LET mode == modeOf(supportsDataSuffix)
        normalized == callsNormalized(args)
        useCapabilities == mode = "capabilities"
        useManualFallback == mode = "manual"
        callsToSend == IF useManualFallback /\ builderCode # noCode
                       THEN Map(suffixCall, normalized) ELSE normalized
        dataSuffix == getDataSuffix(builderCode)
        capabilities == IF useCapabilities /\ dataSuffix # undefined
                        THEN dataSuffix ELSE undefined
    IN  /\ x_mode' = mode
        /\ x_result' = NoResult
        /\ IF args.sendCallsAsync
           THEN /\ x_pc' = "sendCalls"
                /\ x_log' = <<Submission("sendCalls", callsToSend, capabilities)>>
                /\ x_sim' = <<>> /\ x_error' = NoError
           ELSE EnterLegacy(args, <<>>)

settle(log, outcome) == [log EXCEPT ![Len(log)].outcome = outcome]

\* The caller has taken the result or the error of the call.
sendXandOTxReturned ==
    /\ x_pc \in {"done", "failed"}
    /\ x_pc' = "idle" /\ x_args' = NoArgs /\ x_mode' = "off" /\ x_log' = <<>>
    /\ x_sim' = <<>> /\ x_capReqs' = 0 /\ x_result' = NoResult /\ x_error' = NoError
    /\ x_client' = "none"
    /\ UNCHANGED <<configVars, codecVars, cacheVars, hookVars, walletClient, g_log, statusVars>>

\* ---- getSendCallsDataSuffixSupport (sendCallsCapabilities.ts:41-67)
Clients == {"w1", "w2"}

\* Line 42 with its test always passed.
anyClient(client) == TRUE

\* !walletClient?.request, negated (line 42).
hasRequest(client) == client # "none"

CapabilityRequest(client) ==
    [capabilities |-> NoCapabilities, kind |-> "pending", client |-> client]

\* What the call answers without waiting: false without a client (line 42), the
\* cached value (line 43), or null when the caller has to wait for the promise.
detectorAnswer(client) ==
    IF ~hasRequest(client) THEN "false" ELSE cachedDataSuffixSupport

\* Ask without the test of line 44: a call never joins the promise in flight.
AskWithoutJoining(client) ==
    IF hasRequest(client) /\ cachedDataSuffixSupport = null
    THEN /\ Len(g_log) < MaxCapRequests
         /\ cachedDataSuffixSupportPromise' = "pending"
         /\ g_log' = Append(g_log, CapabilityRequest(client))
         /\ UNCHANGED cachedDataSuffixSupport
    ELSE UNCHANGED <<cacheVars, g_log>>

\* Lines 42-46 and 66: the call joins the promise in flight or issues
\* wallet_getCapabilities to its client; otherwise it touches nothing.
Ask(client) ==
    IF /\ hasRequest(client) /\ cachedDataSuffixSupport = null
       /\ cachedDataSuffixSupportPromise = null
    THEN /\ Len(g_log) < MaxCapRequests
         /\ cachedDataSuffixSupportPromise' = "pending"
         /\ g_log' = Append(g_log, CapabilityRequest(client))
         /\ UNCHANGED cachedDataSuffixSupport
    ELSE UNCHANGED <<cacheVars, g_log>>

\* SendXandOTx asking the detector whatever the force-manual flag says.
SendXandOTxAlwaysAsking(args) ==
    /\ x_pc = "idle"
    /\ args.walletClient => walletClient # "none"
    /\ x_args' = args
    /\ UNCHANGED <<configVars, codecVars, hookVars, walletClient, statusVars>>
    /\ LET client == IF args.walletClient THEN walletClient ELSE "none"
       IN  /\ x_client' = client
           /\ IF ~(builderCode # noCode
                   /\ getDataSuffix(builderCode) # undefined)
              THEN /\ SelectModeAndSend(args, FALSE)
                   /\ x_capReqs' = 0 /\ UNCHANGED <<cacheVars, g_log>>
              ELSE /\ Ask(client)
                   /\ IF detectorAnswer(client) # null
                      THEN /\ SelectModeAndSend(args, detectorAnswer(client) = "true")
                           /\ x_capReqs' = 0
                      ELSE /\ x_pc' = "getCapabilities"
                           /\ x_mode' = "off" /\ x_log' = <<>> /\ x_sim' = <<>>
                           /\ x_result' = NoResult /\ x_error' = NoError
                           /\ x_capReqs' =
                                 IF cachedDataSuffixSupportPromise # null THEN 0 ELSE 1

\* sendXandOTx(args) is called: WalletPanel.tsx:195-213, and on to the first await.
\* The walletClient argument is the connected client or missing.
SendXandOTx(args) ==
    /\ x_pc = "idle"
    /\ args.walletClient => walletClient # "none"
    /\ x_args' = args
    /\ UNCHANGED <<configVars, codecVars, hookVars, walletClient, statusVars>>
    /\ LET client == IF args.walletClient THEN walletClient ELSE "none"
       IN  /\ x_client' = client
           /\ IF ~(~forceManual /\ builderCode # noCode
                   /\ getDataSuffix(builderCode) # undefined)
              THEN /\ SelectModeAndSend(args, FALSE)
                   /\ x_capReqs' = 0 /\ UNCHANGED <<cacheVars, g_log>>
              ELSE /\ Ask(client)
                   /\ IF detectorAnswer(client) # null
                      THEN /\ SelectModeAndSend(args, detectorAnswer(client) = "true")
                           /\ x_capReqs' = 0
                      ELSE /\ x_pc' = "getCapabilities"
                           /\ x_mode' = "off" /\ x_log' = <<>> /\ x_sim' = <<>>
                           /\ x_result' = NoResult /\ x_error' = NoError
                           /\ x_capReqs' =
                                 IF cachedDataSuffixSupportPromise # null THEN 0 ELSE 1

\* The catch of lines 58-60 without its assignment: a failed request leaves
\* the cache unknown.
GetCapabilitiesRejectedUncached ==
    /\ cachedDataSuffixSupportPromise = "pending"
    /\ cachedDataSuffixSupportPromise' = null
    /\ g_log' = [g_log EXCEPT ![Len(g_log)].kind = "error"]
    /\ UNCHANGED <<cachedDataSuffixSupport, configVars, codecVars, hookVars, x_args, x_capReqs,
                   walletClient, x_client, a_client>>
    /\ IF x_pc = "getCapabilities"
       THEN SelectModeAndSend(x_args, FALSE)
       ELSE UNCHANGED <<x_pc, x_mode, x_log, x_sim, x_result, x_error>>
    /\ IF a_pc = "waiting"
       THEN a_pc' = "idle" /\ dataSuffixSupported' = "false"
       ELSE UNCHANGED <<a_pc, dataSuffixSupported>>

\* wallet_getCapabilities resolves or rejects (sendCallsCapabilities.ts:46-64):
\* the answer is cached, the promise is cleared and every caller awaiting it goes
\* on: the dispatch to its first submission, the effect of useAttributionStatus
\* (useAttributionStatus.ts:33-36) to setDataSuffixSupported.
Detected(kind, capabilities) ==
    LET supported == kind = "ok" /\ supportsDataSuffixCapability(capabilities)
    IN  /\ cachedDataSuffixSupportPromise = "pending"
        /\ cachedDataSuffixSupport' = toFlag(supported)
        /\ cachedDataSuffixSupportPromise' = null
        /\ g_log' = [g_log EXCEPT ![Len(g_log)].kind = kind,
                                  ![Len(g_log)].capabilities = capabilities]
        /\ UNCHANGED <<configVars, codecVars, hookVars, x_args, x_capReqs,
                       walletClient, x_client, a_client>>
        /\ IF x_pc = "getCapabilities"
           THEN SelectModeAndSend(x_args, supported)
           ELSE UNCHANGED <<x_pc, x_mode, x_log, x_sim, x_result, x_error>>
        /\ IF a_pc = "waiting"
           THEN a_pc' = "idle" /\ dataSuffixSupported' = toFlag(supported)
           ELSE UNCHANGED <<a_pc, dataSuffixSupported>>

GetCapabilitiesResolved ==
    \E capabilities \in WalletCapabilities : Detected("ok", capabilities)

GetCapabilitiesRejected == Detected("error", NoCapabilities)

\* ---- useAttributionStatus (hooks/useAttributionStatus.ts), development build
\* The effect of lines 17-44 runs with the client of this render; the run before
\* it is no longer active.
attributionStatusEffect(client) ==
    /\ a_client' = client
    /\ IF builderCode = noCode \/ getDataSuffix(builderCode) = undefined
       THEN /\ dataSuffixSupported' = null /\ a_pc' = "idle"
            /\ UNCHANGED <<cacheVars, g_log>>
       ELSE IF forceManual
       THEN /\ dataSuffixSupported' = "false" /\ a_pc' = "idle"
            /\ UNCHANGED <<cacheVars, g_log>>
       ELSE /\ Ask(client)
            /\ IF detectorAnswer(client) # null
               THEN dataSuffixSupported' = detectorAnswer(client) /\ a_pc' = "idle"
               ELSE a_pc' = "waiting" /\ UNCHANGED dataSuffixSupported

\* The component using the hook mounts.
AttributionStatusMounted ==
    /\ a_pc = "unmounted"
    /\ attributionStatusEffect(walletClient)
    /\ UNCHANGED <<configVars, codecVars, sendVars, hookVars, walletClient, x_client>>

\* useWalletClient delivers another client (connect, disconnect, reconnect,
\* account switch); a mounted useAttributionStatus runs its effect again.
WalletClientChanged(client) ==
    /\ client # walletClient
    /\ walletClient' = client
    /\ UNCHANGED <<configVars, codecVars, sendVars, hookVars, x_client>>
    /\ IF a_pc = "unmounted"
       THEN UNCHANGED <<cacheVars, g_log, statusVars>>
       ELSE attributionStatusEffect(client)

\* SendCallsSettled with a result that reports the mode capabilities whatever
\* mode was selected.
SendCallsSettledAsCapabilities(outcome) ==
    /\ x_pc = "sendCalls"
    /\ UNCHANGED <<configVars, codecVars, appVars, cacheVars, hookVars, x_args, x_mode, x_capReqs>>
    /\ LET log == settle(x_log, outcome)
           error == outcome.error
           dataSuffix == getDataSuffix(builderCode)
           fallbackCalls == Map(suffixCall, callsNormalized(x_args))
       IN  IF outcome.kind = "ok"
           THEN /\ x_pc' = "done" /\ x_log' = log
                /\ x_result' = [dataSuffix |-> x_log[1].dataSuffix, handle |-> outcome.handle,
                                method |-> "sendCalls", calls |-> x_log[1].calls,
                                mode |-> "capabilities"]
                /\ UNCHANGED <<x_sim, x_error>>
           ELSE IF /\ x_mode = "capabilities" /\ isCapabilitiesError(error)
                   /\ builderCode # noCode /\ dataSuffix # undefined
           THEN /\ x_pc' = "retry"
                /\ x_log' = Append(log, Submission("sendCalls", fallbackCalls, undefined))
                /\ UNCHANGED <<x_sim, x_error, x_result>>
           ELSE IF ~isSendCallsUnsupported(error)
           THEN /\ x_pc' = "failed" /\ x_error' = error /\ x_log' = log
                /\ UNCHANGED <<x_sim, x_result>>
           ELSE /\ EnterLegacy(x_args, log)
                /\ UNCHANGED x_result

\* The first sendCallsAsync settles: WalletPanel.tsx:257-276.
SendCallsSettled(outcome) ==
    /\ x_pc = "sendCalls"
    /\ UNCHANGED <<configVars, codecVars, appVars, cacheVars, hookVars, x_args, x_mode, x_capReqs>>
    /\ LET log == settle(x_log, outcome)
           error == outcome.error
           dataSuffix == getDataSuffix(builderCode)
           fallbackCalls == Map(suffixCall, callsNormalized(x_args))
       IN  IF outcome.kind = "ok"
           THEN /\ x_pc' = "done" /\ x_log' = log
                /\ x_result' = [dataSuffix |-> x_log[1].dataSuffix, handle |-> outcome.handle,
                                method |-> "sendCalls", calls |-> x_log[1].calls,
                                mode |-> x_mode]
                /\ UNCHANGED <<x_sim, x_error>>
           ELSE IF /\ x_mode = "capabilities" /\ isCapabilitiesError(error)
                   /\ builderCode # noCode /\ dataSuffix # undefined
           THEN /\ x_pc' = "retry"
                /\ x_log' = Append(log, Submission("sendCalls", fallbackCalls, undefined))
                /\ UNCHANGED <<x_sim, x_error, x_result>>
           ELSE IF ~isSendCallsUnsupported(error)
           THEN /\ x_pc' = "failed" /\ x_error' = error /\ x_log' = log
                /\ UNCHANGED <<x_sim, x_result>>
           ELSE /\ EnterLegacy(x_args, log)
                /\ UNCHANGED x_result

SendCallsResolved == \E n \in Handles : SendCallsSettled(Resolved(bundleId(n)))
SendCallsRejected == \E e \in WalletErrors : SendCallsSettled(Rejected(e))

\* The manual retry settles: WalletPanel.tsx:269-270.
RetrySettled(outcome) ==
    /\ x_pc = "retry"
    /\ UNCHANGED <<configVars, codecVars, appVars, cacheVars, hookVars, x_args, x_mode,
                   x_capReqs, x_sim>>
    /\ x_log' = settle(x_log, outcome)
    /\ IF outcome.kind = "ok"
       THEN /\ x_pc' = "done"
            /\ x_result' = [dataSuffix |-> undefined, handle |-> outcome.handle,
                            method |-> "sendCalls", calls |-> x_log[2].calls,
                            mode |-> "manual"]
            /\ UNCHANGED x_error
       ELSE /\ x_pc' = "failed" /\ x_error' = outcome.error
            /\ UNCHANGED x_result

RetryResolved == \E n \in Handles : RetrySettled(Resolved(bundleId(n)))
RetryRejected == \E e \in WalletErrors : RetrySettled(Rejected(e))

\* CallSettled with a simulation that is made again when it fails.
CallSettledRetrying(outcome) ==
    /\ x_pc = "call"
    /\ UNCHANGED <<configVars, codecVars, appVars, cacheVars, hookVars, x_args, x_mode,
                   x_capReqs, x_result>>
    /\ IF outcome.kind = "ok"
       THEN /\ x_pc' = "sendTransaction"
            /\ x_sim' = <<[x_sim[1] EXCEPT !.outcome = outcome]>>
            /\ x_log' = Append(x_log,
                    Submission("sendTransaction", <<x_sim[1].data>>, undefined))
            /\ UNCHANGED x_error
       ELSE /\ x_pc' = "call"
            /\ x_sim' = <<x_sim[1]>> \o x_sim
            /\ UNCHANGED <<x_log, x_error>>

\* publicClient.call settles: WalletPanel.tsx:290-304.
CallSettled(outcome) ==
    /\ x_pc = "call"
    /\ UNCHANGED <<configVars, codecVars, appVars, cacheVars, hookVars, x_args, x_mode,
                   x_capReqs, x_result>>
    /\ x_sim' = <<[x_sim[1] EXCEPT !.outcome = outcome]>>
    /\ IF outcome.kind = "ok"
       THEN /\ x_pc' = "sendTransaction"
            /\ x_log' = Append(x_log,
                    Submission("sendTransaction", <<x_sim[1].data>>, undefined))
            /\ UNCHANGED x_error
       ELSE /\ x_pc' = "failed" /\ x_error' = outcome.error
            /\ UNCHANGED x_log

CallResolved == CallSettled(Resolved(""))
CallRejected == CallSettled(Rejected(ErrSimulation))

\* sendTransactionAsync settles: WalletPanel.tsx:298-306.
SendTransactionSettled(outcome) ==
    /\ x_pc = "sendTransaction"
    /\ UNCHANGED <<configVars, codecVars, appVars, cacheVars, hookVars, x_args, x_mode,
                   x_capReqs, x_sim>>
    /\ x_log' = settle(x_log, outcome)
    /\ IF outcome.kind = "ok"
       THEN /\ x_pc' = "done"
            /\ x_result' = [dataSuffix |-> undefined, handle |-> outcome.handle,
                            method |-> "sendTransaction",
                            calls |-> <<callsNormalized(x_args)[1]>>,
                            mode |-> x_mode]
            /\ UNCHANGED x_error
       ELSE /\ x_pc' = "failed" /\ x_error' = outcome.error
            /\ UNCHANGED x_result

SendTransactionResolved == \E n \in Handles : SendTransactionSettled(Resolved(hashOf(n)))
SendTransactionRejected == \E e \in WalletErrors : SendTransactionSettled(Rejected(e))

\* ------------------------------------------------------ useGameContractTx
BUILDER_DATA_SUFFIX == buildDataSuffix(BUILDER_CODE)

FunctionNames == {"recordStart", "recordPlayAgain"}

\* encodeFunctionData: the selector of the function (neither ends with the suffix).
encodeFunctionData(functionName) ==
    IF functionName = "recordStart" THEN <<"8", "b">> ELSE <<"b", "a">>

Status(state, message, hash) == [message |-> message, state |-> state, hash |-> hash]

NoTimer      == [armed |-> FALSE, delay |-> 0]
Timer(delay) == [armed |-> TRUE, delay |-> delay]

\* The auto-reset effect (useGameContractTx.ts:147-175) as it leaves the timer
\* after a render with status.state = state.
\* The effect with no branch for 'error' (line 150).
resetDelayButError(state) ==
    IF state \in {"needs_wallet", "cancelled"} THEN Timer(3000)
    ELSE IF state = "sent" THEN Timer(6000)
    ELSE IF state = "confirmed" THEN Timer(8000)
    ELSE NoTimer

resetDelay(state) ==
    IF state \in {"needs_wallet", "cancelled", "error"} THEN Timer(3000)
    ELSE IF state = "sent" THEN Timer(6000)
    ELSE IF state = "confirmed" THEN Timer(8000)
    ELSE NoTimer

\* setStatus followed by the render: the effect runs when status.state changed,
\* clears the timeout of resetTimeoutRef and sets the one of the new state.
\* The timeout a ref set while status.state = state stands for.
Timeout(ref, state) == [state |-> state, delay |-> ref.delay]

\* setStatus with an effect that sets its timeout without clearing the one of
\* resetTimeoutRef.
setStatusKeepingTimeout(next) ==
    /\ status' = next
    /\ IF next.state = status.state THEN UNCHANGED <<resetTimeoutRef, timers>>
       ELSE /\ resetTimeoutRef' = resetDelay(next.state)
            /\ timers' = timers \cup
                  IF resetDelay(next.state).armed
                  THEN {Timeout(resetDelay(next.state), next.state)} ELSE {}

setStatus(next) ==
    /\ status' = next
    /\ IF next.state = status.state THEN UNCHANGED <<resetTimeoutRef, timers>>
       ELSE /\ resetTimeoutRef' = resetDelay(next.state)
            /\ timers' =
                  (timers \ IF resetTimeoutRef.armed
                            THEN {Timeout(resetTimeoutRef, status.state)} ELSE {})
                  \cup IF resetDelay(next.state).armed
                       THEN {Timeout(resetDelay(next.state), next.state)} ELSE {}

NoDebugError == [error |-> NoError, set |-> FALSE, details |-> ""]
toDebugError(error) == [error |-> error, set |-> TRUE, details |-> ""]

NoCallsStatus == [status |-> "none", receipts |-> <<>>, statusCode |-> ""]

\* The report of a poller that confirmed: which poller, the handle it was for (a
\* bundle id or a transaction hash), the data reported and how often the poller
\* has reported it again since.
Notice(poller, handle, data) ==
    [handle |-> handle, data |-> data, poller |-> poller, repeats |-> 0]

NoNotice == Notice("none", "", NoCallsStatus)

\* A submission returned `handle`: a report for it is the first of a new bundle
\* or transaction, no repeat.
forget(handle) == IF p_last.handle = handle THEN NoNotice ELSE p_last

\* What the callbacks of one render capture: the wagmi functions and the client.
AllEnvs ==
    [sendCallsAsync : BOOLEAN, sendTransactionAsync : BOOLEAN,
     publicClient : BOOLEAN, writeContractAsync : BOOLEAN]

\* wagmi provides every function and the client; at most one is taken to be missing.
HookEnvs ==
    {env \in AllEnvs :
        Cardinality({f \in DOMAIN env : ~env[f]}) <= 1}

NoEnv == [sendCallsAsync |-> FALSE, sendTransactionAsync |-> FALSE,
          publicClient |-> FALSE, writeContractAsync |-> FALSE]

\* What ensureReady reads: everything in place, or one thing missing (off Base
\* with and without switchChainAsync).
Ready(isConnected, address, gameContractAddress, onBase, switchChainAsync) ==
    [isConnected |-> isConnected, address |-> address,
     gameContractAddress |-> gameContractAddress, onBase |-> onBase,
     switchChainAsync |-> switchChainAsync]

Readiness ==
    {Ready(TRUE, TRUE, TRUE, TRUE, TRUE),
     Ready(FALSE, TRUE, TRUE, TRUE, TRUE),
     Ready(TRUE, FALSE, TRUE, TRUE, TRUE),
     Ready(TRUE, TRUE, FALSE, TRUE, TRUE),
     Ready(TRUE, TRUE, TRUE, FALSE, TRUE),
     Ready(TRUE, TRUE, TRUE, FALSE, FALSE)}

\* The requests of a dispatch: wallet submissions and simulations, in order.
Simulation(functionName) ==
    Submission("simulateContract",
               <<encodeFunctionData(functionName) \o BUILDER_DATA_SUFFIX>>, undefined)

isSubmission(request) == request.method # "simulateContract"

\* The hook's log keeps the answer without the handle.
hookSettle(log, outcome) ==
    [log EXCEPT ![Len(log)].outcome = [outcome EXCEPT !.handle = ""]]

\* A stretch of sendContractCall up to its next await: where it stops, the
\* requests issued, sendMethod, and the error it threw to the outer catch.
Stretch(pc, log, method, thrown) ==
    [method |-> method, log |-> log, pc |-> pc, thrown |-> thrown]

\* useGameContractTx.ts:330-331 with sendWithWriteContract (231-243) and
\* simulateWrite (214-229).
writeContractStretch(env, functionName, log) ==
    IF ~env.writeContractAsync
    THEN Stretch("idle", log, "writeContract", ErrNoWriteContract)
    ELSE IF ~env.publicClient
    THEN Stretch("idle", log, "writeContract", ErrNoPublicClient)
    ELSE Stretch("simulateWrite", Append(log, Simulation(functionName)),
                 "writeContract", NoError)

\* useGameContractTx.ts:320-328 with sendWithManualTransaction (245-264): an error
\* thrown here is caught and the writeContract fallback follows.
legacyStretch(env, functionName, log) ==
    IF ~env.sendTransactionAsync \/ ~env.publicClient
    THEN writeContractStretch(env, functionName, log)
    ELSE Stretch("simulateManual", Append(log, Simulation(functionName)),
                 "sendTransaction", NoError)

\* useGameContractTx.ts:271-288.
sendStretch(env, functionName) ==
    IF env.sendCallsAsync
    THEN Stretch("sendCalls",
                 <<Submission("sendCalls", <<encodeFunctionData(functionName)>>,
                              BUILDER_DATA_SUFFIX)>>,
                 "sendCalls", NoError)
    ELSE legacyStretch(env, functionName, <<>>)

\* The outer catch showing the text of the error it caught.
caughtStatusRaw(error) ==
    IF hookIsUserRejected(error)
    THEN Status("cancelled", "Transaction cancelled.", "")
    ELSE Status("error",
                IF error.message = {} THEN "Transaction failed."
                ELSE CHOOSE text \in error.message : TRUE,
                "")

\* The outer catch, useGameContractTx.ts:334-342.
caughtStatus(error) ==
    IF hookIsUserRejected(error)
    THEN Status("cancelled", "Transaction cancelled.", "")
    ELSE Status("error", "Transaction failed.", "")

\* The state a stretch leaves.  `entered` holds the status the stretch set before
\* its requests (<<>>: none), `debug` is lastError when nothing is thrown.
Run(stretch, trace, entered, debug) ==
    /\ h_pc' = stretch.pc
    /\ h_log' = stretch.log
    /\ sendMethod' = stretch.method
    /\ UNCHANGED p_last
    /\ IF stretch.thrown # NoError
       THEN /\ lastError' = toDebugError(stretch.thrown)
            /\ setStatus(caughtStatus(stretch.thrown))
            /\ h_trace' = trace \o entered \o <<caughtStatus(stretch.thrown).state>>
       ELSE /\ lastError' = debug
            /\ h_trace' = trace \o entered
            /\ IF entered = <<>> THEN UNCHANGED <<status, resetTimeoutRef, timers>>
               ELSE setStatus(Status(entered[Len(entered)], "", ""))

\* recordStart / recordPlayAgain behind the isPending guard of handleStart and
\* handlePlayAgain; one dispatch runs at a time.  ensureReady
\* (useGameContractTx.ts:177-212), then sendContractCall up to its first await.
RecordRequest(functionName, ready) ==
    /\ h_pc = "idle"
    /\ status.state # "sending"
    /\ h_fn' = functionName
    /\ h_error' = NoError
    /\ UNCHANGED <<configVars, codecVars, appVars, cacheVars, sendVars, callId, txHash, callsStatus,
                   h_env>>
    /\ IF ~ready.isConnected \/ ~ready.address
       THEN /\ setStatus(Status("needs_wallet", "Connect your wallet to start.", ""))
            /\ lastError' = NoDebugError
            /\ h_trace' = <<"needs_wallet">>
            /\ h_log' = <<>>
            /\ UNCHANGED <<h_pc, sendMethod, p_last>>
       ELSE IF ~ready.gameContractAddress
       THEN /\ setStatus(Status("error", "Missing contract address.", ""))
            /\ lastError' = toDebugError(Err(0, {}, {}, {"Missing contract address."}))
            /\ h_trace' = <<"error">>
            /\ h_log' = <<>>
            /\ UNCHANGED <<h_pc, sendMethod, p_last>>
       ELSE IF ~ready.onBase /\ ~ready.switchChainAsync
       THEN /\ setStatus(Status("error", "Please switch to Base to send the transaction.", ""))
            /\ lastError' = NoDebugError
            /\ h_trace' = <<"error">>
            /\ h_log' = <<>>
            /\ UNCHANGED <<h_pc, sendMethod, p_last>>
       ELSE IF ~ready.onBase
       THEN /\ h_pc' = "switchChain"
            /\ lastError' = NoDebugError
            /\ h_trace' = <<>>
            /\ h_log' = <<>>
            /\ UNCHANGED <<status, resetTimeoutRef, timers, sendMethod, p_last>>
       ELSE Run(sendStretch(h_env, functionName), <<>>, <<"sending">>, NoDebugError)

hookFrame == <<configVars, codecVars, appVars, cacheVars, sendVars, h_env, h_fn>>

\* switchChainAsync settles: useGameContractTx.ts:198-209.
SwitchChainResolved ==
    /\ h_pc = "switchChain"
    /\ UNCHANGED <<hookFrame, callId, txHash, callsStatus, h_error>>
    /\ Run(sendStretch(h_env, h_fn), h_trace, <<"sending">>, lastError)

\* SwitchChainRejected without the return of line 207: the dispatch goes on as
\* after a switch that succeeded.
switchFailureIgnored == SwitchChainResolved

SwitchChainRejected ==
    /\ h_pc = "switchChain"
    /\ UNCHANGED <<hookFrame, callId, txHash, callsStatus, h_error, h_log, sendMethod,
                   p_last>>
    /\ \E e \in WalletErrors :
          /\ lastError' = toDebugError(e)
          /\ setStatus(Status("error", "Please switch to Base to send the transaction.", ""))
          /\ h_trace' = Append(h_trace, "error")
          /\ h_pc' = "idle"

\* A batched submission of the hook returned a bundle id: 289-291 and 307-309.
bundleSent(outcome) ==
    /\ callId' = outcome.handle
    /\ callsStatus' = NoCallsStatus
    /\ setStatus(Status("sent", "", ""))
    /\ h_log' = hookSettle(h_log, outcome)
    /\ h_trace' = Append(h_trace, "sent")
    /\ h_pc' = "idle"
    /\ p_last' = forget(outcome.handle)
    /\ UNCHANGED <<txHash, lastError, sendMethod>>

\* A legacy submission of the hook returned a hash: 323-325 and 332-333.
hashSent(outcome) ==
    /\ txHash' = outcome.handle
    /\ setStatus(Status("sent", "", outcome.handle))
    /\ h_log' = hookSettle(h_log, outcome)
    /\ h_trace' = Append(h_trace, "sent")
    /\ h_pc' = "idle"
    /\ p_last' = forget(outcome.handle)
    /\ UNCHANGED <<callId, callsStatus, lastError, sendMethod>>

\* The first sendCallsAsync of the hook settles: useGameContractTx.ts:275-317.
HookSendCallsSettled(outcome) ==
    /\ h_pc = "sendCalls"
    /\ UNCHANGED hookFrame
    /\ LET log == hookSettle(h_log, outcome)
           error == outcome.error
       IN  IF outcome.kind = "ok"
           THEN bundleSent(outcome) /\ UNCHANGED h_error
           ELSE /\ h_error' = IF hookIsCapabilitiesError(error) THEN error ELSE NoError
                /\ UNCHANGED <<callId, txHash, callsStatus>>
                /\ IF hookIsCapabilitiesError(error)
                   THEN /\ h_pc' = "retry"
                        /\ h_log' = Append(log,
                              Submission("sendCalls", <<encodeFunctionData(h_fn)>>, undefined))
                        /\ UNCHANGED <<status, resetTimeoutRef, timers, lastError,
                                       sendMethod, h_trace, p_last>>
                   ELSE IF ~hookIsSendCallsUnsupported(error)
                   THEN Run(Stretch("idle", log, sendMethod, error), h_trace, <<>>, lastError)
                   ELSE Run(legacyStretch(h_env, h_fn, log), h_trace, <<>>, lastError)

HookSendCallsResolved == \E n \in Handles : HookSendCallsSettled(Resolved(bundleId(n)))
HookSendCallsRejected == \E e \in WalletErrors : HookSendCallsSettled(Rejected(e))

\* The retry without capabilities settles: useGameContractTx.ts:296-316.  Its own
\* error is logged and dropped; `error` of the first attempt decides what follows.
HookRetrySettled(outcome) ==
    /\ h_pc = "retry"
    /\ UNCHANGED hookFrame
    /\ h_error' = NoError
    /\ LET log == hookSettle(h_log, outcome)
       IN  IF outcome.kind = "ok"
           THEN bundleSent(outcome)
           ELSE /\ UNCHANGED <<callId, txHash, callsStatus>>
                /\ IF ~hookIsSendCallsUnsupported(h_error)
                   THEN Run(Stretch("idle", log, sendMethod, h_error), h_trace, <<>>, lastError)
                   ELSE Run(legacyStretch(h_env, h_fn, log), h_trace, <<>>, lastError)

HookRetryResolved == \E n \in Handles : HookRetrySettled(Resolved(bundleId(n)))
HookRetryRejected == \E e \in WalletErrors : HookRetrySettled(Rejected(e))

\* simulateWrite of sendWithManualTransaction settles: 250-261.
SimulateManualSettled(outcome) ==
    /\ h_pc = "simulateManual"
    /\ UNCHANGED <<hookFrame, h_error, callId, txHash, callsStatus>>
    /\ LET log == hookSettle(h_log, outcome)
           data == concatAppendBuilderCodeToCalldata(encodeFunctionData(h_fn), BUILDER_CODE)
       IN  IF outcome.kind = "ok"
           THEN Run(Stretch("sendTransaction",
                            Append(log, Submission("sendTransaction", <<data>>, undefined)),
                            sendMethod, NoError),
                    h_trace, <<>>, lastError)
           ELSE Run(writeContractStretch(h_env, h_fn, log), h_trace, <<>>, lastError)

SimulateManualResolved == SimulateManualSettled(Resolved(""))
SimulateManualRejected == SimulateManualSettled(Rejected(ErrSimulation))

\* sendTransactionAsync of the hook settles: 256-261 and 322-328.
HookSendTransactionSettled(outcome) ==
    /\ h_pc = "sendTransaction"
    /\ UNCHANGED <<hookFrame, h_error>>
    /\ IF outcome.kind = "ok"
       THEN hashSent(outcome)
       ELSE /\ UNCHANGED <<callId, txHash, callsStatus>>
            /\ Run(writeContractStretch(h_env, h_fn, hookSettle(h_log, outcome)),
                   h_trace, <<>>, lastError)

HookSendTransactionResolved ==
    \E n \in Handles : HookSendTransactionSettled(Resolved(hashOf(n)))
HookSendTransactionRejected ==
    \E e \in WalletErrors : HookSendTransactionSettled(Rejected(e))

\* simulateWrite of sendWithWriteContract settles: 236-240.
SimulateWriteSettled(outcome) ==
    /\ h_pc = "simulateWrite"
    /\ UNCHANGED <<hookFrame, h_error, callId, txHash, callsStatus>>
    /\ LET log == hookSettle(h_log, outcome)
           data == encodeFunctionData(h_fn) \o BUILDER_DATA_SUFFIX
       IN  IF outcome.kind = "ok"
           THEN Run(Stretch("writeContract",
                            Append(log, Submission("writeContract", <<data>>, undefined)),
                            sendMethod, NoError),
                    h_trace, <<>>, lastError)
           ELSE Run(Stretch("idle", log, sendMethod, outcome.error), h_trace, <<>>, lastError)

SimulateWriteResolved == SimulateWriteSettled(Resolved(""))
SimulateWriteRejected == SimulateWriteSettled(Rejected(ErrSimulation))

\* writeContractAsync settles: 237-240 and 331-342.
WriteContractSettled(outcome) ==
    /\ h_pc = "writeContract"
    /\ UNCHANGED <<hookFrame, h_error>>
    /\ IF outcome.kind = "ok"
       THEN hashSent(outcome)
       ELSE /\ UNCHANGED <<callId, txHash, callsStatus>>
            /\ Run(Stretch("idle", hookSettle(h_log, outcome), sendMethod, outcome.error),
                   h_trace, <<>>, lastError)

WriteContractResolved == \E n \in Handles : WriteContractSettled(Resolved(hashOf(n)))
WriteContractRejected == \E e \in WalletErrors : WriteContractSettled(Rejected(e))

\* useWaitForCallsStatus delivers new data for callId and the effect at
\* useGameContractTx.ts:112-130 runs.
CallsStatuses ==
    {[status |-> "pending", receipts |-> <<>>, statusCode |-> ""],
     [status |-> "success", receipts |-> <<>>, statusCode |-> ""],
     [status |-> "success", receipts |-> <<"h1">>, statusCode |-> ""],
     [status |-> "failure", receipts |-> <<>>, statusCode |-> ""],
     [status |-> "failure", receipts |-> <<>>, statusCode |-> "500"]}

\* The effect of lines 112-130 with setCallId(null) left out of its success branch.
callsStatusEffectKeepingCallId(data) ==
    IF data.status = "success"
    THEN /\ setStatus(Status("confirmed", "",
                             IF data.receipts = <<>> THEN "" ELSE data.receipts[1]))
         /\ callsStatus' = NoCallsStatus
         /\ UNCHANGED <<lastError, callId>>
    ELSE IF data.status = "failure"
    THEN /\ setStatus(Status("error", "Transaction failed.", ""))
         /\ lastError' = [error |-> Err(0, {}, {}, {"Call bundle failed."}),
                          set |-> TRUE,
                          details |-> data.statusCode]
         /\ callId' = null
         /\ callsStatus' = NoCallsStatus
    ELSE /\ callsStatus' = data
         /\ UNCHANGED <<status, resetTimeoutRef, timers, lastError, callId>>

\* The body of the effect, lines 115-129, run with callId set and `data` reported.
callsStatusEffect(data) ==
    IF data.status = "success"
    THEN /\ setStatus(Status("confirmed", "",
                             IF data.receipts = <<>> THEN "" ELSE data.receipts[1]))
         /\ callId' = null
         /\ callsStatus' = NoCallsStatus
         /\ UNCHANGED lastError
    ELSE IF data.status = "failure"
    THEN /\ setStatus(Status("error", "Transaction failed.", ""))
         /\ lastError' = [error |-> Err(0, {}, {}, {"Call bundle failed."}),
                          set |-> TRUE,
                          details |-> data.statusCode]
         /\ callId' = null
         /\ callsStatus' = NoCallsStatus
    ELSE /\ callsStatus' = data
         /\ UNCHANGED <<status, resetTimeoutRef, timers, lastError, callId>>

CallsStatusChanged(data) ==
    /\ callId # null
    /\ data # callsStatus
    /\ UNCHANGED <<hookFrame, h_pc, h_error, h_log, h_trace, txHash, sendMethod>>
    /\ callsStatusEffect(data)

BundleStatus == \E data \in CallsStatuses : CallsStatusChanged(data) /\ UNCHANGED p_last

\* BundleStatus, with a report of success kept in p_last.
BundleStatusNoted ==
    \E data \in CallsStatuses :
        /\ CallsStatusChanged(data)
        /\ p_last' = IF data.status = "success" THEN Notice("bundle", callId, data)
                     ELSE p_last

\* useWaitForCallsStatus reports the success of the bundle of p_last once more.
\* The hook reads the report of callId (lines 105-110) and the effect returns
\* without one (line 113): the report reaches the body only while callId is the
\* bundle's id.
CallsStatusRepeated ==
    /\ p_last.poller = "bundle"
    /\ p_last.repeats < MaxRepeats
    /\ p_last' = [p_last EXCEPT !.repeats = @ + 1]
    /\ UNCHANGED <<hookFrame, h_pc, h_error, h_log, h_trace, txHash, sendMethod>>
    /\ IF callId = p_last.handle
       THEN callsStatusEffect(p_last.data)
       ELSE UNCHANGED <<status, resetTimeoutRef, timers, lastError, callId, callsStatus>>

\* The body of the effect, lines 142-143, run with the receipt of txHash = hash.
receiptEffect(hash) ==
    /\ setStatus(Status("confirmed", "", hash))
    /\ txHash' = null

\* useWaitForTransactionReceipt resolves for txHash and the effect at
\* useGameContractTx.ts:140-145 runs.
receiptConfirmed ==
    /\ txHash # null
    /\ receiptEffect(txHash)
    /\ UNCHANGED <<hookFrame, h_pc, h_error, h_log, h_trace, callId, callsStatus,
                   lastError, sendMethod>>

ReceiptConfirmed == receiptConfirmed /\ UNCHANGED p_last

\* ReceiptConfirmed, with the report kept in p_last.
ReceiptConfirmedNoted ==
    /\ receiptConfirmed
    /\ p_last' = Notice("receipt", txHash, NoCallsStatus)

\* useWaitForTransactionReceipt reports the receipt of the transaction of p_last
\* once more.  The hook reads the receipt of txHash (lines 132-138): the report
\* reaches the effect only while txHash is the transaction's hash.
ReceiptRepeated ==
    /\ p_last.poller = "receipt"
    /\ p_last.repeats < MaxRepeats
    /\ p_last' = [p_last EXCEPT !.repeats = @ + 1]
    /\ UNCHANGED <<hookFrame, h_pc, h_error, h_log, h_trace, callId, callsStatus,
                   lastError, sendMethod>>
    /\ IF txHash = p_last.handle
       THEN receiptEffect(p_last.handle)
       ELSE UNCHANGED <<status, resetTimeoutRef, timers, txHash>>

\* The armed auto-reset timer fires: useGameContractTx.ts:163-166.
ResetTimeout ==
    /\ \E timeout \in timers : timers' = timers \ {timeout}
    /\ status' = Status("idle", "", "")
    /\ resetTimeoutRef' = NoTimer
    /\ UNCHANGED <<hookFrame, h_pc, h_error, h_log, h_trace, callId, txHash, callsStatus,
                   lastError, sendMethod, p_last>>

\* ---------------------------------------------------------- specifications
ConfigInit ==
    /\ builderCode \in {noCode, "bc1"}
    /\ forceManual \in BOOLEAN

CacheInit ==
    /\ cachedDataSuffixSupport = null
    /\ cachedDataSuffixSupportPromise = null
    /\ g_log = <<>>

\* A wallet is connected; useAttributionStatus is not mounted yet.
AppInit ==
    /\ walletClient = "w1"
    /\ a_pc = "unmounted"
    /\ a_client = "none"
    /\ dataSuffixSupported = null

SendInit ==
    /\ x_pc = "idle"
    /\ x_args = NoArgs
    /\ x_mode = "off"
    /\ x_log = <<>>
    /\ x_sim = <<>>
    /\ x_capReqs = 0
    /\ x_client = "none"
    /\ x_result = NoResult
    /\ x_error = NoError

HookInit ==
    /\ status = Status("idle", "", "")
    /\ callId = null
    /\ txHash = null
    /\ lastError = NoDebugError
    /\ sendMethod = "none"
    /\ resetTimeoutRef = NoTimer
    /\ timers = {}
    /\ callsStatus = NoCallsStatus
    /\ h_pc = "idle"
    /\ h_fn = "recordStart"
    /\ h_error = NoError
    /\ h_log = <<>>
    /\ h_trace = <<>>
    /\ p_last = NoNotice

\* No function of lib/ has been called on its own.
CodecIdle ==
    /\ c_impl = "sendCallsCapabilities"
    /\ c_code = noCode
    /\ c_trace = <<<<>>>>
    /\ c_call = NoCall

\* sendXandOTx, called again and again.
InitSend ==
    /\ ConfigInit /\ CacheInit /\ AppInit /\ SendInit /\ HookInit /\ h_env = NoEnv
    /\ CodecIdle

NextSend ==
    \/ \E args \in SendArgs : SendXandOTx(args)
    \/ GetCapabilitiesResolved
    \/ GetCapabilitiesRejected
    \/ SendCallsResolved
    \/ SendCallsRejected
    \/ RetryResolved
    \/ RetryRejected
    \/ CallResolved
    \/ CallRejected
    \/ SendTransactionResolved
    \/ SendTransactionRejected
    \/ sendXandOTxReturned

SpecSend == InitSend /\ [][NextSend]_vars

\* The hook, its pollers and its timer.
InitHook ==
    /\ builderCode = BUILDER_CODE /\ forceManual = FALSE
    /\ CacheInit /\ AppInit /\ SendInit /\ HookInit /\ CodecIdle
    /\ h_env \in HookEnvs

NextHook ==
    \/ \E functionName \in FunctionNames, ready \in Readiness :
          RecordRequest(functionName, ready)
    \/ SwitchChainResolved
    \/ SwitchChainRejected
    \/ HookSendCallsResolved
    \/ HookSendCallsRejected
    \/ HookRetryResolved
    \/ HookRetryRejected
    \/ SimulateManualResolved
    \/ SimulateManualRejected
    \/ HookSendTransactionResolved
    \/ HookSendTransactionRejected
    \/ SimulateWriteResolved
    \/ SimulateWriteRejected
    \/ WriteContractResolved
    \/ WriteContractRejected
    \/ BundleStatus
    \/ ReceiptConfirmed
    \/ ResetTimeout

SpecHook == InitHook /\ [][NextHook]_vars

\* The hook with every wagmi function available, and a timeout that is pending
\* fires: the browser runs the callback of a timeout that is not cleared.
InitReset ==
    /\ InitHook
    /\ \A f \in DOMAIN h_env : h_env[f]

SpecReset == InitReset /\ [][NextHook]_vars /\ WF_vars(ResetTimeout)

\* The hook with every wagmi function available and the preconditions of
\* ensureReady met, a wallet that fails no request but the first sendCalls, and
\* pollers that repeat the report that confirmed; p_last keeps that report.
AllReady == Ready(TRUE, TRUE, TRUE, TRUE, TRUE)

NextPoll ==
    \/ \E functionName \in FunctionNames : RecordRequest(functionName, AllReady)
    \/ HookSendCallsResolved
    \/ HookSendCallsRejected
    \/ HookRetryResolved
    \/ SimulateManualResolved
    \/ HookSendTransactionResolved
    \/ BundleStatusNoted
    \/ ReceiptConfirmedNoted
    \/ CallsStatusRepeated
    \/ ReceiptRepeated
    \/ ResetTimeout

SpecPoll == InitReset /\ [][NextPoll]_vars

\* The detector and its callers.  The dispatches pass one call.
DetectArgs == {args \in SendArgs : args.calls = <<<<"A", "b">>>>}

NextDetect ==
    \/ \E args \in DetectArgs : SendXandOTx(args)
    \/ AttributionStatusMounted
    \/ \E client \in Clients \cup {"none"} : WalletClientChanged(client)
    \/ GetCapabilitiesResolved
    \/ GetCapabilitiesRejected
    \/ SendCallsResolved
    \/ SendCallsRejected
    \/ RetryResolved
    \/ RetryRejected
    \/ CallResolved
    \/ CallRejected
    \/ SendTransactionResolved
    \/ SendTransactionRejected
    \/ sendXandOTxReturned

SpecDetect == InitSend /\ [][NextDetect]_vars

\* The functions of lib/ applied to any call data, code, suffix and capability
\* structure; nothing is dispatched.
InitCodec ==
    /\ builderCode = noCode /\ forceManual = FALSE
    /\ CacheInit /\ AppInit /\ SendInit /\ HookInit /\ h_env = NoEnv
    /\ c_impl \in {"sendCallsCapabilities", "baseAttribution"}
    \* a code that is unset or set; baseAttribution's append takes one that is set
    /\ c_code \in {noCode, "bc1", BUILDER_CODE}
    /\ c_impl = "baseAttribution" => c_code # noCode
    /\ \E calldata \in CodecDatas : c_trace = <<calldata>>
    /\ c_call = NoCall

NextCodec ==
    \/ AppendBuilderCodeToCalldata
    \/ HasDataSuffix
    \/ SupportsDataSuffixCapability

SpecCodec == InitCodec /\ [][NextCodec]_vars

\* Both dispatchers, each run on its own: a behaviour is one of SpecSend or one
\* of SpecHook (h_env is NoEnv exactly in the former).
InitDispatch == InitSend \/ InitHook

NextDispatch ==
    \/ h_env = NoEnv /\ NextSend
    \/ h_env # NoEnv /\ NextHook

SpecDispatch == InitDispatch /\ [][NextDispatch]_vars

\* Both dispatchers with requests that are answered: the promise of a wallet,
\* simulation, capability or chain-switch request that is pending settles.
requestSettles ==
    \/ GetCapabilitiesResolved \/ GetCapabilitiesRejected
    \/ SendCallsResolved \/ SendCallsRejected
    \/ RetryResolved \/ RetryRejected
    \/ CallResolved \/ CallRejected
    \/ SendTransactionResolved \/ SendTransactionRejected

hookRequestSettles ==
    \/ SwitchChainResolved \/ SwitchChainRejected
    \/ HookSendCallsResolved \/ HookSendCallsRejected
    \/ HookRetryResolved \/ HookRetryRejected
    \/ SimulateManualResolved \/ SimulateManualRejected
    \/ HookSendTransactionResolved \/ HookSendTransactionRejected
    \/ SimulateWriteResolved \/ SimulateWriteRejected
    \/ WriteContractResolved \/ WriteContractRejected

\* The dispatches of sendXandOTx pass batches of any length of one call data, the
\* hook's are recordStart; the pollers and the timer go on.
NextLive ==
    \/ /\ h_env = NoEnv
       /\ \/ \E args \in {a \in SendArgs :
                            \A i \in 1..Len(a.calls) : a.calls[i] = <<"A", "b">>} :
                SendXandOTx(args)
          \/ requestSettles
          \/ sendXandOTxReturned
    \/ /\ h_env # NoEnv
       /\ \/ \E ready \in Readiness : RecordRequest("recordStart", ready)
          \/ hookRequestSettles
          \/ BundleStatus
          \/ ReceiptConfirmed
          \/ ResetTimeout

SpecLive ==
    /\ InitDispatch /\ [][NextLive]_vars
    /\ WF_vars(requestSettles) /\ WF_vars(hookRequestSettles)

\* ================================================================ claims
\* The classification of section 4.3, read off the error's texts.
capabilityRejected(error) ==
    (error.shortMessage \cup error.message)
        \cap {"invalid params", "capabilities", "datasuffix"} # {}

protocolUnsupported(error) ==
    (error.name \cup error.shortMessage \cup error.message)
        \cap {"wallet_sendcalls", "sendcalls", "method not found", "method not supported"} # {}

userRejected(error) == error.code = 4001 \/ "user rejected" \in error.message

\* Only a user rejection: the error matches no other class.
onlyUserRejected(error) ==
    userRejected(error) /\ ~capabilityRejected(error) /\ ~protocolUnsupported(error)

lowered(data) == [i \in 1..Len(data) |-> toLowerCase(data[i])]

\* The last bytes of data are the bytes of suffix, whatever the case of data.
endsWithSuffix(data, suffix) ==
    /\ Len(data) >= Len(suffix)
    /\ \A k \in 1..Len(suffix) :
          toLowerCase(data[Len(data) - Len(suffix) + k]) = suffix[k]

\* Every call of the submission has the suffix, in the capabilities field or at
\* the end of its data.
carriesSuffix(submission, suffix) ==
    \/ submission.dataSuffix = suffix
    \/ \A i \in 1..Len(submission.calls) : endsWithSuffix(submission.calls[i], suffix)

failedWith(request) == request.outcome.kind = "error"

count(log, method) == Cardinality({k \in 1..Len(log) : log[k].method = method})

submissions(log) == Cardinality({k \in 1..Len(log) : isSubmission(log[k])})

simulationsPassed(log) ==
    \A k \in 1..Len(log) : ~isSubmission(log[k]) => log[k].outcome.kind # "error"

allAvailable(env) == \A f \in DOMAIN env : env[f]

sendEnded == x_pc \in {"done", "failed"}
hookEnded == h_pc = "idle" /\ h_log # <<>>

\* C1: with a builder code configured, every call submitted to the wallet carries
\* the attribution suffix, in capabilities.dataSuffix or at the end of its data;
\* in sendXandOTx and in the hook's sendContractCall, on every attempt.  (The hook
\* is taken with every wagmi function and the public client available.)
C1_EveryCallCarriesSuffix ==
    /\ builderCode # noCode =>
          \A k \in 1..Len(x_log) : carriesSuffix(x_log[k], toDataSuffix(builderCode))
    /\ allAvailable(h_env) =>
          \A k \in 1..Len(h_log) :
              isSubmission(h_log[k]) => carriesSuffix(h_log[k], BUILDER_DATA_SUFFIX)

C3_OneManualRetry ==
    (/\ x_mode = "capabilities" /\ Len(x_log) >= 1
     /\ x_log[1].method = "sendCalls" /\ failedWith(x_log[1])
     /\ capabilityRejected(x_log[1].outcome.error))
    => /\ Len(x_log) = 2
       /\ x_log[2].method = "sendCalls"
       /\ x_log[2].dataSuffix = undefined
       /\ Len(x_log[2].calls) = Len(x_args.calls)
       /\ \A i \in 1..Len(x_log[2].calls) :
             endsWithSuffix(x_log[2].calls[i], toDataSuffix(builderCode))
       /\ x_sim = <<>>
       /\ x_pc \in {"retry", "done", "failed"}
       /\ x_pc = "retry" <=> x_log[2].outcome.kind = "pending"
       /\ x_log[2].outcome.kind = "ok" =>
             /\ x_pc = "done"
             /\ x_result.method = "sendCalls" /\ x_result.mode = "manual"

\* C3 happens: the retry after a capability-rejected first attempt succeeded.
C3_Witness ==
    /\ x_pc = "done" /\ Len(x_log) = 2 /\ x_result.mode = "manual"
    /\ capabilityRejected(x_log[1].outcome.error)
    /\ x_log[1].dataSuffix # undefined
    /\ Len(x_log[2].calls) = 2

\* C4: after a batched attempt that fails protocol-unsupported, no further
\* sendCalls is issued and exactly one legacy submission is attempted.  Stated
\* where the legacy path is open: every function is available, the batch is one
\* call, every simulation passes, and the error is no capability rejection.
C4_UnsupportedOneLegacy ==
    /\ (/\ sendEnded /\ Len(x_log) >= 1
        /\ x_log[1].method = "sendCalls" /\ failedWith(x_log[1])
        /\ protocolUnsupported(x_log[1].outcome.error)
        /\ ~capabilityRejected(x_log[1].outcome.error)
        /\ x_args.sendTransactionAsync /\ Len(x_args.calls) = 1
        /\ \A k \in 1..Len(x_sim) : x_sim[k].outcome.kind = "ok")
       => count(x_log, "sendCalls") = 1 /\ count(x_log, "sendTransaction") = 1
    /\ (/\ hookEnded /\ allAvailable(h_env)
        /\ h_log[1].method = "sendCalls" /\ failedWith(h_log[1])
        /\ protocolUnsupported(h_log[1].outcome.error)
        /\ ~capabilityRejected(h_log[1].outcome.error)
        /\ simulationsPassed(h_log))
       => /\ count(h_log, "sendCalls") = 1
          /\ count(h_log, "sendTransaction") + count(h_log, "writeContract") = 1

\* C5: a first batched submission that fails with an error that is neither
\* capability-rejected (in mode Capabilities) nor protocol-unsupported ends the
\* dispatch with that error: no retry, no simulation, no legacy submission.
bundleFailed == Err(0, {}, {}, {"Call bundle failed."})

C5_OtherErrorPropagates ==
    /\ (/\ Len(x_log) >= 1 /\ x_log[1].method = "sendCalls" /\ failedWith(x_log[1])
        /\ ~(x_mode = "capabilities" /\ capabilityRejected(x_log[1].outcome.error))
        /\ ~protocolUnsupported(x_log[1].outcome.error))
       => /\ x_pc = "failed" /\ x_error = x_log[1].outcome.error
          /\ Len(x_log) = 1 /\ x_sim = <<>>
    /\ (/\ Len(h_log) >= 1 /\ h_log[1].method = "sendCalls" /\ failedWith(h_log[1])
        /\ ~capabilityRejected(h_log[1].outcome.error)
        /\ ~protocolUnsupported(h_log[1].outcome.error))
       => /\ h_pc = "idle" /\ Len(h_log) = 1
          /\ lastError.set /\ lastError.error \in {h_log[1].outcome.error, bundleFailed}
          /\ h_trace[Len(h_trace)] =
                IF userRejected(h_log[1].outcome.error) THEN "cancelled" ELSE "error"

\* C5 happens: in mode Manual, with the legacy path open, sendCalls failed on an
\* 'invalid params' error and the dispatch failed with it.
C5_Witness ==
    /\ x_pc = "failed" /\ x_mode = "manual" /\ x_error = ErrInvalidParams
    /\ Len(x_log) = 1 /\ x_log[1].outcome.error = ErrInvalidParams
    /\ x_args.sendTransactionAsync /\ Len(x_args.calls) = 1

\* C6: one dispatch issues at most two wallet submissions (sendCalls,
\* sendTransaction and writeContract together), in sendXandOTx and in the hook
\* (taken with every wagmi function and the public client available).
C6_AtMostTwoSubmissions ==
    /\ Len(x_log) <= 2
    /\ allAvailable(h_env) => submissions(h_log) <= 2

\* C7: once a wallet submission of a dispatch was rejected by the user, the
\* dispatch issues no further submission.  Stated for a rejection that is only a
\* user rejection (code 4001, no other class matches its texts), the hook having
\* every wagmi function and the public client available.
C7_NothingAfterRejection ==
    /\ \A k \in 1..Len(x_log) :
          (failedWith(x_log[k]) /\ onlyUserRejected(x_log[k].outcome.error))
              => k = Len(x_log)
    /\ allAvailable(h_env) =>
          \A k \in 1..Len(h_log) :
              (isSubmission(h_log[k]) /\ failedWith(h_log[k])
               /\ onlyUserRejected(h_log[k].outcome.error))
                  => \A j \in (k + 1)..Len(h_log) : ~isSubmission(h_log[j])

\* C8: a dispatch of the hook that ends on the user's rejection of a wallet
\* prompt sets Sending, then Cancelled, never Error, and Cancelled has the reset
\* timer armed that takes it to Idle.  (Every wagmi function and the public client
\* are available; the rejection matches no other class.)
C8_RejectionIsCancelled ==
    /\ (/\ hookEnded /\ allAvailable(h_env)
        /\ isSubmission(h_log[Len(h_log)]) /\ failedWith(h_log[Len(h_log)])
        /\ onlyUserRejected(h_log[Len(h_log)].outcome.error))
       => /\ Len(h_trace) >= 2
          /\ h_trace[Len(h_trace) - 1] = "sending"
          /\ h_trace[Len(h_trace)] = "cancelled"
          /\ \A k \in 1..Len(h_trace) : h_trace[k] # "error"
    /\ status.state = "cancelled" => resetTimeoutRef.armed

\* The state table of the status tracker: inTable(from, to).
inTable(from, to) ==
    \/ from = "idle" /\ to = "needs_wallet"
    \/ from \in {"idle", "needs_wallet", "cancelled", "error"} /\ to = "sending"
    \/ from = "sending" /\ to \in {"sent", "cancelled", "error"}
    \/ from = "sent" /\ to \in {"confirmed", "error"}
    \/ from \in {"needs_wallet", "cancelled", "error", "sent", "confirmed"} /\ to = "idle"

\* C9: under any interleaving of requests, poller notifications and the reset
\* timer, status.state becomes Confirmed only by a transition of the state
\* table, that is, only from Sent.
C9_ConfirmedOnlyFromSent ==
    [][(status'.state # status.state /\ status'.state = "confirmed")
          => inTable(status.state, status'.state)]_vars

\* C10: in mode Capabilities the first sendCalls request carries the caller's
\* data unchanged (a missing data field as '0x'), capabilities.dataSuffix is the
\* encoded suffix, and on success the result is method sendCalls, mode capabilities.
C10_CapabilitiesLeavesData ==
    (x_mode = "capabilities" /\ x_args.sendCallsAsync /\ x_pc # "idle")
    => /\ Len(x_log) >= 1
       /\ x_log[1].method = "sendCalls"
       /\ Len(x_log[1].calls) = Len(x_args.calls)
       /\ \A i \in 1..Len(x_args.calls) :
             x_log[1].calls[i] =
                 IF x_args.calls[i] = undefined THEN <<>> ELSE x_args.calls[i]
       /\ x_log[1].dataSuffix = toDataSuffix(builderCode)
       /\ x_log[1].outcome.kind = "ok" =>
             /\ x_pc = "done" /\ Len(x_log) = 1
             /\ x_result.method = "sendCalls" /\ x_result.mode = "capabilities"
             /\ x_result.calls = x_log[1].calls

\* C10 happens: a Capabilities dispatch succeeded at once with data in upper case
\* and a call without data.
C10_Witness ==
    /\ x_pc = "done" /\ x_mode = "capabilities" /\ Len(x_log) = 1
    /\ x_result.mode = "capabilities"
    /\ \E i, j \in 1..Len(x_args.calls) :
          /\ x_args.calls[i] = <<"A", "b">> /\ x_log[1].calls[i] = <<"A", "b">>
          /\ x_args.calls[j] = undefined /\ x_log[1].calls[j] = <<>>

\* C11: the mode of a dispatch of sendXandOTx is off without a builder code,
\* manual with the force-manual flag, and otherwise capabilities when the
\* detector reported Supported and manual when it reported Unsupported (no wallet
\* client, or the cached answer); the status panel derives the same mode from the
\* detector's answer.
detectorReport == IF x_args.walletClient THEN cachedDataSuffixSupport ELSE "false"

C11_ModeSelection ==
    x_pc \notin {"idle", "getCapabilities"} =>
        /\ detectorReport \in {"true", "false"} \/ builderCode = noCode \/ forceManual
        /\ x_mode = IF builderCode = noCode THEN "off"
                    ELSE IF forceManual THEN "manual"
                    ELSE IF detectorReport = "true" THEN "capabilities"
                    ELSE "manual"
        /\ (builderCode = noCode \/ forceManual \/ detectorReport # null)
              => attributionStatusMode(detectorReport) = x_mode

\* C11 happens: a dispatch ran in mode capabilities on the detector's Supported,
\* with neither the flag set nor the code missing.
C11_Witness ==
    /\ x_pc = "done" /\ x_mode = "capabilities"
    /\ cachedDataSuffixSupport = "true" /\ ~forceManual /\ builderCode # noCode

\* The legacy path is closed to the dispatch from the start: no batched
\* submission function, and no legacy function or a batch that is not one call.
legacyClosed ==
    /\ x_pc # "idle" /\ ~x_args.sendCallsAsync
    /\ (~x_args.sendTransactionAsync \/ Len(x_args.calls) # 1)

legacyClosedError ==
    IF ~x_args.sendTransactionAsync THEN ErrNoSendTransaction ELSE ErrSingleCall

\* C12 as stated: with the legacy path closed from the start, sendXandOTx fails
\* with no wallet request of any kind (no wallet_getCapabilities, no submission)
\* and no simulation issued.
C12_NoRequestAtAll ==
    legacyClosed =>
        /\ x_log = <<>> /\ x_sim = <<>> /\ x_capReqs = 0
        /\ x_pc # "getCapabilities" => x_pc = "failed" /\ x_error = legacyClosedError

\* C12 amended: with the legacy path closed from the start, sendXandOTx fails
\* with no wallet submission and no simulation issued; the one request it may
\* have issued is the capability detection of mode selection.
C12_NoSubmissionBeforeFailure ==
    legacyClosed =>
        /\ x_log = <<>> /\ x_sim = <<>> /\ x_capReqs <= 1
        /\ x_pc \in {"getCapabilities", "failed"}
        /\ x_pc = "failed" => x_error = legacyClosedError

\* C12 happens: a batch of two calls with only the legacy function failed, after
\* the capability detection of mode selection.
C12_Witness ==
    /\ x_pc = "failed" /\ x_error = ErrSingleCall
    /\ ~x_args.sendCallsAsync /\ x_args.sendTransactionAsync /\ Len(x_args.calls) = 2
    /\ x_capReqs = 1

\* C13: with a builder code configured, a result of sendXandOTx obtained through
\* the legacy path (method sendTransaction) reports mode manual, whatever mode
\* was selected at the start of the dispatch.
C13_LegacyResultIsManual ==
    (x_pc = "done" /\ x_result.method = "sendTransaction" /\ builderCode # noCode)
        => x_result.mode = "manual"

isLegacy(request) == request.method \in {"sendTransaction", "writeContract"}

\* Where a simulation function is available, every legacy submission was
\* preceded by a simulation of the same data that passed.
simulatedFirst ==
    /\ \A k \in 1..Len(x_log) :
          (isLegacy(x_log[k]) /\ x_args.publicClient)
              => /\ Len(x_sim) = 1 /\ x_sim[1].outcome.kind = "ok"
                 /\ x_log[k].calls = <<x_sim[1].data>>
    /\ \A k \in 1..Len(h_log) :
          isLegacy(h_log[k])
              => /\ k > 1 /\ h_log[k - 1].method = "simulateContract"
                 /\ h_log[k - 1].outcome.kind = "ok"

\* A failed simulation is followed by no wallet submission.
failedSimulationStops ==
    /\ (x_sim # <<>> /\ x_sim[1].outcome.kind = "error")
          => x_pc = "failed" /\ \A k \in 1..Len(x_log) : ~isLegacy(x_log[k])
    /\ \A k \in 1..Len(h_log) :
          (h_log[k].method = "simulateContract" /\ failedWith(h_log[k]))
              => \A j \in (k + 1)..Len(h_log) : ~isSubmission(h_log[j])

\* Without a simulation function the legacy submission is issued all the same,
\* unsimulated.
unsimulatedProceeds ==
    /\ (/\ x_pc \notin {"idle", "getCapabilities"} /\ ~x_args.sendCallsAsync
        /\ x_args.sendTransactionAsync /\ Len(x_args.calls) = 1 /\ ~x_args.publicClient)
          => x_sim = <<>> /\ count(x_log, "sendTransaction") = 1
    /\ (/\ hookEnded /\ ~h_env.publicClient
        /\ h_log[1].method = "sendCalls" /\ failedWith(h_log[1])
        /\ protocolUnsupported(h_log[1].outcome.error)
        /\ ~capabilityRejected(h_log[1].outcome.error))
          => \E k \in 1..Len(h_log) : isLegacy(h_log[k])

\* C14: on the legacy path of sendXandOTx and of the hook, an available
\* simulation function is invoked before the legacy submission, a failed
\* simulation prevents any wallet submission, and without a simulation function
\* the legacy submission proceeds unsimulated.
C14_SimulateBeforeLegacy ==
    simulatedFirst /\ failedSimulationStops /\ unsimulatedProceeds

\* The wallet_getCapabilities requests not answered yet.
outstanding == Cardinality({k \in 1..Len(g_log) : g_log[k].kind = "pending"})

modeFor(supported) == IF supported = "true" THEN "capabilities" ELSE "manual"

\* C15: at most one wallet_getCapabilities request is outstanding; a call of
\* getSendCallsDataSuffixSupport made while it is in flight issues no request;
\* every caller that waits, the dispatch and the status effect, waits on that
\* request and receives its result when it settles.
C15_SharedDetection ==
    /\ [](/\ outstanding <= 1
          /\ cachedDataSuffixSupportPromise = "pending" <=> outstanding = 1
          /\ (x_pc = "getCapabilities" \/ a_pc = "waiting") => outstanding = 1)
    /\ [][/\ outstanding = 1 => Len(g_log') = Len(g_log)
          /\ (outstanding = 1 /\ outstanding' = 0) =>
                /\ cachedDataSuffixSupport' \in {"true", "false"}
                /\ x_pc = "getCapabilities" =>
                      /\ x_pc' # "getCapabilities"
                      /\ x_mode' = modeFor(cachedDataSuffixSupport')
                /\ a_pc = "waiting" =>
                      /\ a_pc' = "idle"
                      /\ dataSuffixSupported' = cachedDataSuffixSupport']_vars

\* C15 happens: a dispatch and the status effect both wait on the one request,
\* which the effect issued and the dispatch joined.
C15_Witness ==
    /\ x_pc = "getCapabilities" /\ a_pc = "waiting"
    /\ outstanding = 1 /\ Len(g_log) = 1 /\ x_capReqs = 0

\* The dispatch asks the detector: a code is configured and manual is not forced.
consulted == ~forceManual /\ builderCode # noCode

settled(request) == request.kind # "pending"

parsed(request) ==
    toFlag(request.kind = "ok" /\ supportsDataSuffixCapability(request.capabilities))

\* C16: a completed detection is cached, the parsed answer of a successful
\* request and Unsupported for a failed one, never Unknown; from then on the
\* cached value never changes, no wallet_getCapabilities request is issued, and
\* a detection with a wallet client returns the cached value at once.
C16_DetectionCached ==
    /\ [](/\ \A k \in 1..Len(g_log) :
                settled(g_log[k]) => cachedDataSuffixSupport = parsed(g_log[k])
          /\ (/\ a_pc = "idle" /\ a_client # "none" /\ consulted
              /\ cachedDataSuffixSupport # null)
                => dataSuffixSupported = cachedDataSuffixSupport)
    /\ [][cachedDataSuffixSupport # null =>
            /\ cachedDataSuffixSupport' = cachedDataSuffixSupport
            /\ g_log' = g_log
            /\ (x_pc = "idle" /\ x_pc' # "idle" /\ x_client' # "none" /\ consulted) =>
                  /\ x_pc' # "getCapabilities"
                  /\ x_capReqs' = 0
                  /\ x_mode' = modeFor(cachedDataSuffixSupport)]_vars

\* C16 happens: the one request failed, Unsupported is cached, and a dispatch
\* made with a wallet client ran in mode manual without a request of its own.
C16_Witness ==
    /\ Len(g_log) = 1 /\ g_log[1].kind = "error"
    /\ cachedDataSuffixSupport = "false"
    /\ x_pc = "done" /\ x_client # "none" /\ x_capReqs = 0 /\ x_mode = "manual"
    /\ consulted

\* The request answered a caller whose client is `client` with `answer`.
askedOf(client, answer) ==
    \E k \in 1..Len(g_log) :
        g_log[k].client = client /\ settled(g_log[k]) /\ parsed(g_log[k]) = answer

waitsOn(client) ==
    \E k \in 1..Len(g_log) : g_log[k].client = client /\ ~settled(g_log[k])

\* C17: a detection made with a wallet client waits on a request made to that
\* client and returns that client's answer, never the cached answer or the
\* request in flight of another client; both for the dispatch and for the status
\* effect.
C17_DetectionPerClient ==
    /\ (x_pc # "idle" /\ x_client # "none" /\ consulted) =>
          IF x_pc = "getCapabilities" THEN waitsOn(x_client)
          ELSE askedOf(x_client, IF x_mode = "capabilities" THEN "true" ELSE "false")
    /\ (a_pc # "unmounted" /\ a_client # "none" /\ consulted) =>
          IF a_pc = "waiting" THEN waitsOn(a_client)
          ELSE askedOf(a_client, dataSuffixSupported)

\* C18: a call of getSendCallsDataSuffixSupport without a wallet client, by a
\* dispatch or by the status effect, returns Unsupported in the same step, issues
\* no wallet_getCapabilities request and leaves the cache and the request in
\* flight as they are.
C18_NoClientIsUnsupported ==
    [][/\ (x_pc = "idle" /\ x_pc' # "idle" /\ x_client' = "none" /\ consulted) =>
             /\ x_pc' # "getCapabilities" /\ x_mode' = "manual" /\ x_capReqs' = 0
             /\ g_log' = g_log /\ cacheVars' = cacheVars
       /\ (/\ consulted /\ walletClient' = "none"
           /\ \/ a_pc = "unmounted" /\ a_pc' # "unmounted"
              \/ a_pc # "unmounted" /\ walletClient # "none") =>
             /\ a_pc' = "idle" /\ dataSuffixSupported' = "false"
             /\ g_log' = g_log /\ cacheVars' = cacheVars]_vars

\* C18 happens: while a detection is in flight and nothing is cached, a dispatch
\* without a wallet client went on in mode manual.
C18_Witness ==
    /\ x_pc \notin {"idle", "getCapabilities"} /\ x_client = "none" /\ consulted
    /\ x_mode = "manual" /\ x_capReqs = 0
    /\ cachedDataSuffixSupportPromise = "pending" /\ cachedDataSuffixSupport = null
    /\ outstanding = 1

\* C19: at most one auto-reset timeout is pending, the one resetTimeoutRef holds,
\* set for the current status.state; every change of status.state cancels the
\* pending timeout before the next is set; and a reset to Idle is the work of
\* the timeout set for the state it resets.
C19_OneResetTimer ==
    /\ [](/\ Cardinality(timers) <= 1
          /\ timers = IF resetTimeoutRef.armed
                      THEN {Timeout(resetTimeoutRef, status.state)} ELSE {}
          /\ resetTimeoutRef = resetDelay(status.state))
    /\ [][/\ status'.state # status.state =>
                /\ timers \cap timers' = {}
                /\ timers' = IF resetDelay(status'.state).armed
                             THEN {Timeout(resetDelay(status'.state), status'.state)}
                             ELSE {}
          /\ (status'.state = "idle" /\ status.state # "idle") =>
                timers = {Timeout(resetDelay(status.state), status.state)}]_vars

\* C19 happens: the bundle was confirmed while the timeout of Sent was pending;
\* the only timeout pending is the one of Confirmed.
C19_Witness ==
    /\ status.state = "confirmed"
    /\ timers = {[state |-> "confirmed", delay |-> 8000]}
    /\ h_trace # <<>> /\ h_trace[Len(h_trace)] = "sent"

\* C20: a status of Sent, Confirmed, Cancelled or Error leads to Idle, unless a
\* new dispatch is initiated first (status Sending or NeedsWallet); the status
\* stays in none of them forever.
C20_TerminalLeadsToIdle ==
    (status.state \in {"sent", "confirmed", "cancelled", "error"})
        ~> (status.state \in {"idle", "sending", "needs_wallet"})

\* C20 happens: a dispatch ended in Error and the timeout has reset it to Idle.
C20_Witness ==
    /\ status.state = "idle" /\ timers = {}
    /\ h_pc = "idle" /\ h_trace # <<>> /\ h_trace[Len(h_trace)] = "error"

\* C21: both pollers are idempotent for a repeated terminal report: once a report
\* of success for a handle has moved the status to Confirmed, the hook no longer
\* awaits that handle, and the same report arriving again changes neither the
\* status (no transition away from Confirmed, and none back to it after a reset)
\* nor the handles awaited, the timeout pending or lastError.
C21_PollersIdempotent ==
    /\ [](/\ p_last.poller = "bundle" => callId # p_last.handle
          /\ p_last.poller = "receipt" => txHash # p_last.handle)
    /\ [][(CallsStatusRepeated \/ ReceiptRepeated) =>
            /\ status' = status /\ callId' = callId /\ txHash' = txHash
            /\ timers' = timers /\ resetTimeoutRef' = resetTimeoutRef
            /\ lastError' = lastError]_vars

\* C21 happens: the bundle poller has reported the success of a bundle a second
\* time and the status is still the Confirmed of the first report.
C21_Witness ==
    /\ p_last.poller = "bundle" /\ p_last.repeats = 1
    /\ p_last.data.receipts = <<"h1">>
    /\ status = Status("confirmed", "", "h1") /\ callId = null

\* C22: appending is idempotent, for all call data and every builder code and
\* for each appendBuilderCodeToCalldata the dispatch code imports: applied to its
\* own result, the append returns that result unchanged.
C22_AppendIdempotent ==
    \A k \in 2..(Len(c_trace) - 1) : c_trace[k + 1] = c_trace[k]

\* C23: detection is sound: for all call data, empty data and data in upper-case
\* hex included, and every suffix, the data appendBuilderCodeToCalldata returns
\* is found by hasDataSuffix to end with that suffix.
C23_DetectionSound ==
    (/\ c_call.fn = "hasDataSuffix"
     /\ c_code # noCode
     /\ c_call.dataSuffix = getDataSuffix(c_code)
     /\ \E k \in 2..Len(c_trace) : c_call.calldata = c_trace[k])
        => c_call.result = "true"

\* C23 happens: the suffix was appended to data in upper-case hex and
\* hasDataSuffix found it in the result.
C23_Witness ==
    /\ c_impl = "sendCallsCapabilities" /\ c_code = BUILDER_CODE
    /\ c_trace[1] = <<"A", "b">> /\ Len(c_trace) >= 2
    /\ c_trace[2] = <<"a", "b", "a", "8">>
    /\ c_call.fn = "hasDataSuffix"
    /\ c_call.calldata = c_trace[2] /\ c_call.dataSuffix = <<"a", "8">>
    /\ c_call.result = "true"

\* The last bytes of data are the bytes of suffix, letters compared without
\* regard to case.
sameTail(data, suffix) ==
    /\ Len(data) >= Len(suffix)
    /\ \A k \in 1..Len(suffix) :
          toLowerCase(data[Len(data) - Len(suffix) + k]) = toLowerCase(suffix[k])

\* C24: hasDataSuffix is true if and only if the data is not empty and its tail
\* is the suffix, compared case-insensitively; empty data ('0x') and a missing
\* suffix always give false.
C24_HasDataSuffixExact ==
    c_call.fn = "hasDataSuffix" =>
        /\ c_call.result \in {"true", "false"}
        /\ c_call.result = "true" <=>
              /\ c_call.dataSuffix # undefined
              /\ c_call.calldata # undefined /\ c_call.calldata # <<>>
              /\ sameTail(c_call.calldata, c_call.dataSuffix)

\* C24 happens: hasDataSuffix found a lower-case suffix at the end of data whose
\* tail is in upper case.
C24_Witness ==
    /\ c_call.fn = "hasDataSuffix"
    /\ c_call.calldata = <<"a", "B", "8">> /\ c_call.dataSuffix = <<"b", "8">>
    /\ c_call.result = "true"

\* C25: supportsDataSuffixCapability is true exactly for a wallet_sendCalls
\* capability whose dataSuffix is the boolean true, or an object whose supported
\* field is true or, supported not being a boolean, whose enabled field is true,
\* or for an array that contains 'dataSuffix'; all else, a missing or non-object
\* structure included, gives false.
C25_ThreeShapes ==
    c_call.fn = "supportsDataSuffixCapability" =>
        LET caps == c_call.capabilities
            flag == caps.sendCalls = "object" /\ caps.dataSuffix = "true"
            object == /\ caps.sendCalls = "object" /\ caps.dataSuffix = "object"
                      /\ \/ caps.supported = "true"
                         \/ /\ caps.supported \notin {"true", "false"}
                            /\ caps.enabled = "true"
            array == caps.sendCalls = "array" /\ "dataSuffix" \in caps.list
        IN  c_call.result = (IF flag \/ object \/ array THEN "true" ELSE "false")

\* C25 happens: a dataSuffix object whose supported field is not a boolean and
\* whose enabled field is true was recognised.
C25_Witness ==
    /\ c_call.fn = "supportsDataSuffixCapability"
    /\ c_call.capabilities = Caps("object", "object", "other", "true", {})
    /\ c_call.result = "true"

\* C26: in sendXandOTx with mode manual and a batched submission function, the
\* data of every call of the sendCalls request ends with the encoded suffix, and
\* the request has no capabilities field.
C26_ManualBatch ==
    (x_mode = "manual" /\ x_args.sendCallsAsync /\ x_pc # "idle") =>
        /\ Len(x_log) >= 1
        /\ \A k \in 1..Len(x_log) :
              x_log[k].method = "sendCalls" =>
                  /\ x_log[k].dataSuffix = undefined
                  /\ Len(x_log[k].calls) = Len(x_args.calls)
                  /\ \A i \in 1..Len(x_log[k].calls) :
                        endsWithSuffix(x_log[k].calls[i], toDataSuffix(builderCode))

\* C26 happens: a batch of two calls, one without data and one with data in mixed
\* case, was submitted with sendCalls in mode manual.
C26_Witness ==
    /\ x_mode = "manual" /\ x_args.sendCallsAsync /\ x_pc = "done"
    /\ x_log[1].method = "sendCalls" /\ Len(x_log[1].calls) = 2
    /\ x_args.calls[1] = undefined /\ x_args.calls[2] = <<"A", "b">>
    /\ x_log[1].calls[1] = toDataSuffix(builderCode)
    /\ x_log[1].dataSuffix = undefined

\* C27: within one call of sendXandOTx the mode never upgrades: the mode the
\* result reports is never stronger than the mode selected at the start (off
\* stays off, manual stays manual, capabilities stays or becomes manual).
C27_ModeNeverUpgrades ==
    x_pc = "done" =>
        CASE x_mode = "off"    -> x_result.mode = "off"
          [] x_mode = "manual" -> x_result.mode = "manual"
          [] OTHER             -> /\ x_mode = "capabilities"
                                  /\ x_result.mode \in {"capabilities", "manual"}

\* C27 happens: a dispatch that selected capabilities returned the mode manual.
C27_Witness ==
    /\ x_pc = "done" /\ x_mode = "capabilities" /\ x_result.mode = "manual"
    /\ Len(x_log) = 2

\* The texts of an error a wallet or the RPC node answered with.
rawTexts(error) == error.name \cup error.shortMessage \cup error.message

\* C28: the message of the hook's status is always absent or one of five short
\* user-facing strings; no text of a raw wallet or RPC error is ever in the
\* status (it is kept in lastError only).
C28_UserFacingMessages ==
    /\ status.message \in
          {"", "Connect your wallet to start.", "Missing contract address.",
           "Please switch to Base to send the transaction.",
           "Transaction cancelled.", "Transaction failed."}
    /\ \A error \in WalletErrors \cup {ErrSimulation} :
          status.message \notin rawTexts(error)

\* C28 happens: a wallet error with texts of its own ended a request; the status
\* shows 'Transaction failed.' and lastError holds the error.
C28_Witness ==
    /\ status = Status("error", "Transaction failed.", "")
    /\ lastError.set /\ lastError.error \in WalletErrors
    /\ lastError.error.message # {}
    /\ h_log # <<>> /\ h_log[Len(h_log)].outcome.error = lastError.error

\* What ensureReady needs: an account and the contract address.
accountAndContract(ready) ==
    ready.isConnected /\ ready.address /\ ready.gameContractAddress

\* A step of a request that has issued nothing yet obeys ensureReady: a request
\* with a precondition unmet issues nothing and does not enter sending, ending
\* in needs_wallet without an account and in error otherwise (or awaiting the
\* switch to Base); a refused switch ends it in error; and the first request is
\* issued by a request with every precondition met or after the switch succeeded.
readinessObeyed ==
    h_pc \in {"idle", "switchChain"} =>
        /\ \A functionName \in FunctionNames, ready \in Readiness :
              RecordRequest(functionName, ready) =>
                  /\ ~(accountAndContract(ready) /\ ready.onBase) =>
                        /\ h_log' = <<>>
                        /\ \A i \in 1..Len(h_trace') : h_trace'[i] # "sending"
                        /\ status'.state # "sending"
                  /\ ~(ready.isConnected /\ ready.address) =>
                        status'.state = "needs_wallet" /\ h_pc' = "idle"
                  /\ (/\ ready.isConnected /\ ready.address
                      /\ ~(/\ ready.gameContractAddress
                           /\ ready.onBase \/ ready.switchChainAsync)) =>
                        status'.state = "error" /\ h_pc' = "idle"
                  /\ (/\ accountAndContract(ready)
                      /\ ~ready.onBase /\ ready.switchChainAsync) =>
                        h_pc' = "switchChain"
        /\ SwitchChainRejected =>
              /\ h_log' = <<>> /\ h_pc' = "idle"
              /\ status'.state = "error"
              /\ \A i \in 1..Len(h_trace') : h_trace'[i] # "sending"
        /\ (h_log' # <<>> /\ h_log' # h_log) =>
              \/ SwitchChainResolved
              \/ \E functionName \in FunctionNames :
                    RecordRequest(functionName, AllReady)

\* C29: the hook issues no wallet submission unless an account is connected,
\* the contract address is configured and the chain is Base or a switch to Base
\* has succeeded.  Without an account the status becomes needs_wallet, every
\* other failed precondition ends the request in error, and in none of these
\* cases does the status of the request enter sending.
C29_NoSubmissionUnlessReady ==
    /\ [](h_pc = "switchChain" => h_log = <<>> /\ h_trace = <<>>)
    /\ [][readinessObeyed]_vars

\* C29 happens: the switch to Base was refused; the request ended in error
\* without a submission and without sending.
C29_Witness ==
    /\ h_pc = "idle" /\ h_log = <<>> /\ h_trace = <<"error">>
    /\ status = Status("error", "Please switch to Base to send the transaction.", "")
    /\ lastError.set /\ lastError.error \in WalletErrors

\* C30: a report of success for the active bundle id makes the status confirmed
\* with the hash of the first receipt (none when there is no receipt) and clears
\* the bundle id; a report of failure makes it error, records the protocol status
\* code, when there is one, in the detail of lastError and clears the bundle id;
\* any other report changes neither the status nor the bundle id.
C30_BundlePoller ==
    [][\A data \in CallsStatuses :
          CallsStatusChanged(data) =>
              CASE data.status = "success" ->
                      /\ status'.state = "confirmed"
                      /\ status'.hash = IF data.receipts = <<>> THEN ""
                                        ELSE data.receipts[1]
                      /\ callId' = null
                [] data.status = "failure" ->
                      /\ status'.state = "error"
                      /\ lastError'.set /\ lastError'.details = data.statusCode
                      /\ callId' = null
                [] OTHER ->
                      /\ status' = status /\ callId' = callId]_vars

\* C30 happens: the poller reported the failure of the bundle with a status code.
C30_Witness ==
    /\ status = Status("error", "Transaction failed.", "")
    /\ lastError.set /\ lastError.details = "500"
    /\ callId = null /\ h_log # <<>> /\ h_log[Len(h_log)].outcome.kind = "ok"

\* C31: when the batched retry made after a capability rejection fails, its
\* outcome is final: the dispatch fails with the error of the retry, whatever
\* its class, and nothing is submitted after it.
C31_RetryIsFinal ==
    /\ (Len(x_log) >= 2 /\ x_log[2].method = "sendCalls" /\ failedWith(x_log[2])) =>
          /\ Len(x_log) = 2 /\ x_pc = "failed"
          /\ x_error = x_log[2].outcome.error
    /\ (Len(h_log) >= 2 /\ h_log[2].method = "sendCalls" /\ failedWith(h_log[2])) =>
          /\ Len(h_log) = 2 /\ h_pc = "idle"
          /\ h_trace[Len(h_trace)] = caughtStatus(h_log[2].outcome.error).state

\* C32: provided every wallet, simulation and chain-switch request is answered,
\* every dispatch ends (sendXandOTx in done or failed, the hook's dispatch by
\* returning) after a bounded number of requests, and a status that has entered
\* sending comes to sent, cancelled or error.
C32_DispatchTerminates ==
    /\ [](Len(x_log) <= 2 /\ Len(x_sim) <= 1 /\ Len(h_log) <= 6)
    /\ (x_pc \notin {"idle", "done", "failed"} \/ h_pc # "idle")
          ~> (x_pc \in {"done", "failed"} \/ (h_env # NoEnv /\ h_pc = "idle"))
    /\ (status.state = "sending") ~> (status.state \in {"sent", "cancelled", "error"})

\* C32 happens: a dispatch of the hook has ended after all six of its requests:
\* sendCalls, the retry, two simulations, sendTransaction and writeContract.
C32_Witness ==
    /\ h_pc = "idle" /\ Len(h_log) = 6
    /\ h_trace[1] = "sending" /\ h_trace[Len(h_trace)] \in {"sent", "cancelled", "error"}
    /\ status.state = h_trace[Len(h_trace)]

\* C33: the grace windows of the auto-reset are strictly ordered: the delay
\* armed for cancelled and for error is less than the delay armed for sent, which
\* is less than the delay armed for confirmed; the timeout that is armed is
\* always the one of the status shown, and none is armed in idle or in sending.
C33_GraceWindowsOrdered ==
    /\ resetTimeoutRef = resetDelay(status.state)
    /\ \A timeout \in timers :
          timeout.state = status.state /\ timeout.delay = resetTimeoutRef.delay
    /\ status.state \in {"idle", "sending"} => ~resetTimeoutRef.armed /\ timers = {}
    /\ status.state \in {"cancelled", "error"} =>
          /\ resetTimeoutRef.armed
          /\ resetTimeoutRef.delay < resetDelay("sent").delay
    /\ status.state = "sent" =>
          /\ resetTimeoutRef.armed
          /\ resetTimeoutRef.delay > resetDelay("cancelled").delay
          /\ resetTimeoutRef.delay > resetDelay("error").delay
          /\ resetTimeoutRef.delay < resetDelay("confirmed").delay
    /\ status.state = "confirmed" =>
          /\ resetTimeoutRef.armed
          /\ resetTimeoutRef.delay > resetDelay("sent").delay

\* C33 happens: a bundle that was sent has been confirmed, and the timeout armed
\* is the long one.
C33_Witness ==
    /\ status.state = "confirmed" /\ resetTimeoutRef = Timer(8000)
    /\ h_trace # <<>> /\ h_trace[Len(h_trace)] = "sent"
    /\ callId = null /\ sendMethod = "sendCalls"

\* C34: the calls of the result of sendXandOTx are the calls exactly as they
\* were submitted to the wallet, an appended suffix included, on the batched
\* path, on the retry path and on the legacy path; and the handle of the result
\* is a bundle id for sendCalls and a transaction hash for sendTransaction.
C34_ResultCallsAsSubmitted ==
    x_pc = "done" =>
        LET submitted == x_log[Len(x_log)]
        IN  /\ submitted.outcome.kind = "ok"
            /\ x_result.method = submitted.method
            /\ x_result.calls = submitted.calls
            /\ x_result.method = "sendCalls" =>
                  x_result.handle \in {bundleId(n) : n \in Handles}
            /\ x_result.method = "sendTransaction" =>
                  x_result.handle \in {hashOf(n) : n \in Handles}

\* C35: while a dispatch of the hook is awaiting the wallet (or a simulation),
\* status.state stays sending, so isPending stays true until that dispatch
\* resolves: no report of a poller for the handle of an earlier dispatch changes
\* the status in the meantime.
C35_SendingWhileAwaiting ==
    h_pc \notin {"idle", "switchChain"} => status.state = "sending"

\* C36: a handle returned by a dispatch stays tracked until its poller reports a
\* terminal result: a bundle id or a transaction hash that is awaited is only
\* ever cleared (by the poller's report), never replaced by the handle of a later
\* dispatch.
C36_HandleStaysTracked ==
    [][/\ (callId # null /\ callId' # callId) => callId' = null
       /\ (txHash # null /\ txHash' # txHash) => txHash' = null]_vars

\* C37: with no builder code configured or with the force-manual flag set,
\* sendXandOTx issues no wallet_getCapabilities request and leaves the capability
\* cache as it is.
C37_NoIntrospection ==
    (builderCode = noCode \/ forceManual) =>
        /\ g_log = <<>> /\ x_capReqs = 0
        /\ x_pc # "getCapabilities"
        /\ cachedDataSuffixSupport = null /\ cachedDataSuffixSupportPromise = null

\* C37 happens: with a builder code and the force-manual flag, a dispatch that
\* was given a wallet client has ended in mode manual without a request.
C37_Witness ==
    /\ forceManual /\ builderCode # noCode
    /\ x_pc = "done" /\ x_args.walletClient /\ x_mode = "manual"
    /\ g_log = <<>> /\ cachedDataSuffixSupport = null

\* The legacy path was entered: a simulation or a sendTransaction was made, or
\* the dispatch failed on the tests that precede them.
legacyReached ==
    \/ x_sim # <<>>
    \/ \E k \in 1..Len(x_log) : x_log[k].method = "sendTransaction"
    \/ x_pc = "failed" /\ x_error \in {ErrNoSendTransaction, ErrSingleCall}

\* C38: precedence of the error classes in sendXandOTx: in mode capabilities an
\* error of the first sendCalls that is capability-rejected is handled as such
\* even when it is protocol-unsupported too (the manual batched retry is made
\* and the legacy path is not entered); in mode manual or off a
\* capability-rejected error triggers no batched retry, and the legacy path is
\* entered only when the error is protocol-unsupported as well.
C38_ClassificationPrecedence ==
    (/\ Len(x_log) >= 1 /\ x_log[1].method = "sendCalls" /\ failedWith(x_log[1])
     /\ capabilityRejected(x_log[1].outcome.error)) =>
        IF x_mode = "capabilities"
        THEN /\ Len(x_log) = 2 /\ x_log[2].method = "sendCalls"
             /\ x_log[2].dataSuffix = undefined
             /\ ~legacyReached
        ELSE /\ \A k \in 2..Len(x_log) : x_log[k].method # "sendCalls"
             /\ legacyReached <=> protocolUnsupported(x_log[1].outcome.error)

\* C38 happens: in mode capabilities an error that is capability-rejected and
\* protocol-unsupported at once was answered by the manual retry, which was sent.
C38_Witness ==
    /\ x_mode = "capabilities" /\ x_pc = "done" /\ Len(x_log) = 2
    /\ x_log[1].outcome.error = ErrBothInvalidSend
    /\ capabilityRejected(ErrBothInvalidSend) /\ protocolUnsupported(ErrBothInvalidSend)
    /\ x_result.mode = "manual" /\ x_sim = <<>>

====
